---- MODULE Spec2Model ----
(***************************************************************************)
(* Agent orchestration engine of ralph-thinks-first: the recursive control *)
(* loop runAgentWithOrchestration (index.js), the process supervisor       *)
(* spawnAgent (agents/agent.js), the directive argument parser parseArgs   *)
(* (utils/cli.js), the task-list helpers (utils/tasks.js) and the event    *)
(* protocol emitEvent / parseEventStream (utils/events.js).                *)
(*                                                                         *)
(* Text is modelled as a sequence of lines, a line as a sequence of        *)
(* whitespace-separated tokens.  A marker such as "REACHED MAX ITERATIONS" *)
(* is one token.  JavaScript values that can be null, a number or a string *)
(* are tagged records (Num, Str, Null, Undef).                             *)
(***************************************************************************)
EXTENDS Integers, Sequences, FiniteSets, TLC

VARIABLES frames, proc, sup, orphans, files, exitStatus, errPipe, startup, built

vars == <<frames, proc, sup, orphans, files, exitStatus, errPipe, startup, built>>

(***************************************************************************)
(* Bounds of the model.                                                    *)
(***************************************************************************)
\* largest maximum-iteration count a top-level run is configured with
MaxIter == 2
\* deepest nesting of frames (manager -> sub-manager -> ...) explored
MaxDepth == 2
\* most writes an agent makes to its error stream
MaxWrites == 2
\* largest read that returns less than everything the pipe holds
MaxChunk == 3

(***************************************************************************)
(* JavaScript values.                                                      *)
(***************************************************************************)
Num(n) == [t |-> "number", n |-> n, s |-> ""]
Str(s) == [t |-> "string", n |-> 0, s |-> s]
Bool(b) == [t |-> "boolean", n |-> IF b THEN 1 ELSE 0, s |-> ""]
Null == [t |-> "null", n |-> 0, s |-> ""]
Undef == [t |-> "undefined", n |-> 0, s |-> ""]

\* decimal strings the model can produce
DecimalOf == ("0" :> 0) @@ ("1" :> 1) @@ ("2" :> 2) @@ ("3" :> 3) @@ ("10" :> 10)

\* ToNumber(v) is NaN
IsNaN(v) ==
    \/ v.t = "undefined"
    \/ v.t = "string" /\ v.s /= "" /\ v.s \notin DOMAIN DecimalOf

\* ToNumber(v) for the values that are not NaN
ToNumber(v) ==
    CASE v.t = "number" -> v.n
      [] v.t = "boolean" -> v.n
      [] v.t = "string" /\ v.s \in DOMAIN DecimalOf -> DecimalOf[v.s]
      [] OTHER -> 0

\* the relational operator  i > v  for a number i
GreaterThan(i, v) == ~IsNaN(v) /\ i > ToNumber(v)

\* JavaScript truthiness
Truthy(v) ==
    CASE v.t = "number" -> v.n /= 0
      [] v.t = "boolean" -> v.n = 1
      [] v.t = "string" -> v.s /= ""
      [] OTHER -> FALSE

\* String(n) for a number
IntString(n) ==
    CASE n = -1 -> "-1"
      [] n = 143 -> "143"
      [] n = 10 -> "10"
      [] n = 0 -> "0"
      [] n = 1 -> "1"
      [] n = 2 -> "2"
      [] n = 3 -> "3"
      [] n = 4 -> "4"
      [] OTHER -> "5"

\* String(v)
JSString(v) ==
    CASE v.t = "number" -> IntString(v.n)
      [] v.t = "string" -> v.s
      [] v.t = "null" -> "null"
      [] v.t = "boolean" -> IF v.n = 1 THEN "true" ELSE "false"
      [] OTHER -> "undefined"

\* String.prototype.toLowerCase on the tokens of the model
toLowerCase(w) ==
    CASE w \in {"MANAGE", "Manage"} -> "manage"
      [] w \in {"PLAN", "Plan"} -> "plan"
      [] w \in {"CODE", "Code"} -> "code"
      [] w \in {"DOCUMENT", "Document"} -> "document"
      [] w = "**INVOKE**:" -> "**invoke**:"
      [] OTHER -> w

\* a line that trim() reduces to the empty string
IsBlank(line) == \A i \in 1..Len(line) : line[i] = ""

(***************************************************************************)
(* Text helpers: the tokens of a text in reading order, each with the line *)
(* it stands on.                                                           *)
(***************************************************************************)
RECURSIVE FlatFrom(_, _)
FlatFrom(text, ln) ==
    IF ln > Len(text) THEN <<>>
    ELSE [i \in 1..Len(text[ln]) |-> [w |-> text[ln][i], ln |-> ln]]
         \o FlatFrom(text, ln + 1)

Flat(text) == FlatFrom(text, 1)

\* String.prototype.includes for a marker token
Includes(text, marker) ==
    \E ln \in 1..Len(text) : \E i \in 1..Len(text[ln]) : text[ln][i] = marker

\* String.prototype.indexOf for a token: its position in reading order, 0 if absent
IndexOf(text, token) ==
    LET W == Flat(text)
        hits == {i \in 1..Len(W) : W[i].w = token}
    IN IF hits = {} THEN 0 ELSE CHOOSE i \in hits : \A j \in hits : i <= j

\* String.prototype.trim on a text: leading and trailing blank lines removed
RECURSIVE TrimText(_)
TrimText(text) ==
    IF text = <<>> THEN <<>>
    ELSE IF IsBlank(Head(text)) THEN TrimText(Tail(text))
    ELSE IF IsBlank(text[Len(text)]) THEN TrimText(SubSeq(text, 1, Len(text) - 1))
    ELSE text

(***************************************************************************)
(* utils/tasks.js                                                          *)
(***************************************************************************)
beginDelimiter == "---BEGIN TASKS.MD---"
endDelimiter == "---END TASKS.MD---"

\* the value extractTasksContent returns for "no block"
NullText == << <<"(null)">> >>

\* variant: the end delimiter is looked for after the begin delimiter
extractTasksContentEndAfterBegin(response) ==
    LET W == Flat(response)
        beginIndex == IndexOf(response, beginDelimiter)
        later == {i \in 1..Len(W) : i > beginIndex /\ W[i].w = endDelimiter}
        endIndex == IF later = {} THEN 0 ELSE CHOOSE i \in later : \A k \in later : i <= k
        inner(ln) == SelectSeq(
            [i \in 1..Len(W) |-> IF W[i].ln = ln /\ i > beginIndex /\ i < endIndex
                                 THEN W[i].w ELSE ""],
            LAMBDA w : w /= "")
    IN IF response = <<>> THEN NullText
       ELSE IF beginIndex = 0 \/ endIndex = 0 THEN NullText
       ELSE TrimText([k \in 1..(W[endIndex].ln - W[beginIndex].ln + 1) |->
                          inner(W[beginIndex].ln + k - 1)])

\* extractTasksContent(response): the trimmed text between the first begin
\* delimiter and the first end delimiter
extractTasksContent(response) ==
    LET W == Flat(response)
        beginIndex == IndexOf(response, beginDelimiter)
        endIndex == IndexOf(response, endDelimiter)
        inner(ln) == SelectSeq(
            [i \in 1..Len(W) |-> IF W[i].ln = ln /\ i > beginIndex /\ i < endIndex
                                 THEN W[i].w ELSE ""],
            LAMBDA w : w /= "")
    IN IF response = <<>> THEN NullText
       ELSE IF beginIndex = 0 \/ endIndex = 0 \/ endIndex <= beginIndex THEN NullText
       ELSE TrimText([k \in 1..(W[endIndex].ln - W[beginIndex].ln + 1) |->
                          inner(W[beginIndex].ln + k - 1)])

\* if (tasksContent): neither null nor the empty string
HasTasksContent(content) == content /= NullText /\ content /= <<>>

(***************************************************************************)
(* utils/cli.js                                                            *)
(***************************************************************************)
\* the args object parseArgs starts from
EmptyArgs ==
    [config |-> Null, model |-> Null, maxIterations |-> Null, tasks |-> Null,
     role |-> Null, help |-> Bool(FALSE), version |-> Bool(FALSE)]

\* argv[0].includes('bun') || argv[0].includes('node')
IncludesBunOrNode(w) == w \in {"bun", "node", "nodejs"}

RECURSIVE parseArgsFrom(_, _, _)
parseArgsFrom(argv, i, args) ==
    IF i > Len(argv) THEN args
    ELSE LET arg == argv[i]
             more == i + 1 <= Len(argv)
         IN CASE arg \in {"--config", "-c"} ->
                   IF more THEN parseArgsFrom(argv, i + 2, [args EXCEPT !.config = Str(argv[i + 1])])
                   ELSE parseArgsFrom(argv, i + 1, args)
              [] arg \in {"--model", "-m"} ->
                   IF more THEN parseArgsFrom(argv, i + 2, [args EXCEPT !.model = Str(argv[i + 1])])
                   ELSE parseArgsFrom(argv, i + 1, args)
              [] arg \in {"--max-iterations", "--max-iter"} ->
                   IF more THEN parseArgsFrom(argv, i + 2, [args EXCEPT !.maxIterations = Str(argv[i + 1])])
                   ELSE parseArgsFrom(argv, i + 1, args)
              [] arg \in {"--tasks", "-t"} ->
                   IF more THEN parseArgsFrom(argv, i + 2, [args EXCEPT !.tasks = Str(argv[i + 1])])
                   ELSE parseArgsFrom(argv, i + 1, args)
              [] arg \in {"--role", "-r"} ->
                   IF more THEN parseArgsFrom(argv, i + 2, [args EXCEPT !.role = Str(argv[i + 1])])
                   ELSE parseArgsFrom(argv, i + 1, args)
              [] arg \in {"--help", "-h"} ->
                   parseArgsFrom(argv, i + 1, [args EXCEPT !.help = Bool(TRUE)])
              [] arg \in {"--version", "-v"} ->
                   parseArgsFrom(argv, i + 1, [args EXCEPT !.version = Bool(TRUE)])
              [] OTHER -> parseArgsFrom(argv, i + 1, args)

\* parseArgs(argv): the first two arguments are skipped when the first one
\* looks like the interpreter
parseArgs(argv) ==
    LET startIndex == IF Len(argv) > 0 /\ argv[1] /= "" /\ IncludesBunOrNode(argv[1])
                      THEN 3 ELSE 1
    IN parseArgsFrom(argv, startIndex, EmptyArgs)

\* additionalArgs.split(/\s+/): the empty string splits into one empty token
SplitArgs(additionalArgs) ==
    IF additionalArgs = <<>> THEN <<"">> ELSE additionalArgs

(***************************************************************************)
(* index.js: signals in an agent's output                                  *)
(***************************************************************************)
\* hasCompletionSignal(output)
hasCompletionSignal(output) ==
    Includes(output, "**AGENT COMPLETE**") \/ Includes(output, "ALL_TASKS_COMPLETE")

\* hasMaxIterationsSignal(output)
hasMaxIterationsSignal(output) == Includes(output, "REACHED MAX ITERATIONS")

\* the positions at which invokeRegex matches: **INVOKE**: ralph-thinks-first
\* --role <role>, case-insensitive, whitespace (line ends included) between
DirectiveStarts(output) ==
    LET W == Flat(output)
    IN {i \in 1..Len(W) :
           /\ i + 3 <= Len(W)
           /\ toLowerCase(W[i].w) = "**invoke**:"
           /\ toLowerCase(W[i + 1].w) = "ralph-thinks-first"
           /\ toLowerCase(W[i + 2].w) = "--role"}

\* variant: the last match in the text is taken
parseInvokeDirectiveLast(output) ==
    LET W == Flat(output)
        starts == DirectiveStarts(output)
        i == CHOOSE k \in starts : \A j \in starts : k >= j
        rest == IF i + 4 <= Len(W)
                THEN SelectSeq([k \in 1..Len(W) |->
                                   IF k >= i + 4 /\ W[k].ln = W[i + 4].ln THEN W[k].w ELSE ""],
                               LAMBDA w : w /= "")
                ELSE <<>>
    IN IF starts = {} THEN [found |-> FALSE, role |-> "", additionalArgs |-> <<>>]
       ELSE [found |-> TRUE, role |-> W[i + 3].w, additionalArgs |-> rest]

\* parseInvokeDirective(output): the first match; the role is the token after
\* --role, the additional arguments are the rest of the line on which the next
\* token stands
parseInvokeDirective(output) ==
    LET W == Flat(output)
        starts == DirectiveStarts(output)
        i == CHOOSE k \in starts : \A j \in starts : k <= j
        rest == IF i + 4 <= Len(W)
                THEN SelectSeq([k \in 1..Len(W) |->
                                   IF k >= i + 4 /\ W[k].ln = W[i + 4].ln THEN W[k].w ELSE ""],
                               LAMBDA w : w /= "")
                ELSE <<>>
    IN IF starts = {} THEN [found |-> FALSE, role |-> "", additionalArgs |-> <<>>]
       ELSE [found |-> TRUE, role |-> W[i + 3].w, additionalArgs |-> rest]

(***************************************************************************)
(* agents/agent.js: role prompt and prompt construction                    *)
(***************************************************************************)
VALID_ROLES == {"manage", "plan", "code", "document"}

\* the role's meta-prompt, reduced to its heading and the lines that carry
\* placeholders
RoleTemplate(role) ==
    CASE role = "manage" ->
           << <<"# Project Management Agent">>,
              <<"$INITIAL_PROMPT">>,
              <<"You are currently at iteration", "$CURRENT_ITERATION",
                "out of a maximum of", "$MAX_ITERATIONS", "iterations.">>,
              <<"The current task file is:", "$TASKS_FILE">> >>
      [] role = "plan" ->
           << <<"# System Architect Agent">> >>
      [] role = "code" ->
           << <<"# Coder Agent">>,
              <<"You are working through tasks in", "$TASKS_FILE">>,
              <<"1. Read", "$TASKS_FILE", "to see current tasks">>,
              <<"6. If", "$CURRENT_ITERATION", ">=", "$MAX_ITERATIONS",
                "say 'REACHED MAX ITERATIONS'">> >>
      [] OTHER ->
           << <<"# Code Documentation Agent">> >>

\* variant: the role is compared as it is written
RoleIsValidCaseSensitive(role) == role \in VALID_ROLES

\* loadRolePrompt(role) throws for a role outside VALID_ROLES
RoleIsValid(role) == toLowerCase(role) \in VALID_ROLES

\* a || b on JavaScript values
OrElse(a, b) == IF Truthy(a) THEN a ELSE b

\* the pieces of a string as String.prototype.replace reads a replacement:
\* the patterns $$ and $& are pieces of their own, and so is a placeholder
\* that stands in the string
Pieces(string) ==
    CASE string = "my$$tasks.md" -> <<"my", "$$", "tasks.md">>
      [] string = "$&.md" -> <<"$&", ".md">>
      [] string = "$MAX_ITERATIONS.md" -> <<"$MAX_ITERATIONS", ".md">>
      [] OTHER -> <<string>>

\* GetSubstitution: $$ stands for a dollar sign, $& for the matched text
GetSubstitution(matched, replacement) ==
    LET piece(i) == CASE replacement[i] = "$$" -> "$"
                      [] replacement[i] = "$&" -> matched
                      [] OTHER -> replacement[i]
    IN [i \in 1..Len(replacement) |-> piece(i)]

\* line.replace(/<placeholder>/g, replacement)
RECURSIVE ReplaceInLine(_, _, _)
ReplaceInLine(line, placeholder, replacement) ==
    IF line = <<>> THEN <<>>
    ELSE (IF Head(line) = placeholder
          THEN GetSubstitution(placeholder, Pieces(replacement))
          ELSE <<Head(line)>>)
         \o ReplaceInLine(Tail(line), placeholder, replacement)

\* prompt.replace(/<placeholder>/g, replacement)
Replace(prompt, placeholder, replacement) ==
    [ln \in 1..Len(prompt) |-> ReplaceInLine(prompt[ln], placeholder, replacement)]

\* buildPrompt(rolePrompt, tasksContent, config)
buildPrompt(rolePrompt, tasksContent, config) ==
    LET name == JSString(OrElse(config.tasksFile, Str("TASKS.md")))
        replaced ==
            Replace(Replace(Replace(rolePrompt, "$TASKS_FILE", name),
                            "$MAX_ITERATIONS",
                            JSString(OrElse(config.maxIterations, Num(10)))),
                    "$CURRENT_ITERATION",
                    JSString(OrElse(config.currentIteration, Num(1))))
        tasksBlock ==
            IF TrimText(tasksContent) /= <<>>
            THEN << <<>>, <<"TASK_FILE_NAME=", name>>, <<>>,
                    <<"--- CURRENT CONTENTS OF", name, "---">> >>
                 \o tasksContent
                 \o << <<"--- END CURRENT CONTENTS ---">> >>
            ELSE <<>>
    IN replaced \o tasksBlock \o config.continuationPrompt

\* the continuation prompt the manager is resumed with after a sub-agent
ContinuationPrompt(subRole, exitCode, completed) ==
    << <<>>, <<>>,
       <<"--- SUB-AGENT RESULT ---">>,
       <<"Agent:", subRole>>,
       <<"Exit Code:", IntString(exitCode)>>,
       <<"Completed:", IF completed THEN "Yes" ELSE "No">>,
       <<"--- END SUB-AGENT RESULT ---">>,
       <<>>,
       <<"The sub-agent has finished. What is the next step?">> >>

(***************************************************************************)
(* Results.                                                                *)
(***************************************************************************)
\* a frame that has no result yet
NoResult ==
    [present |-> FALSE, exitCode |-> 0, output |-> <<>>, events |-> <<>>,
     timedOut |-> FALSE, reachedMaxIterations |-> FALSE, unreadErr |-> <<>>]

\* the result object spawnAgent returns.  Its events member is the array the
\* stderrReader pushes to; unreadErr is what that reader has yet to read of
\* the error stream (nothing, once the reader has finished)
AgentResult(exitCode, output, events, timedOut) ==
    [present |-> TRUE, exitCode |-> exitCode, output |-> output, events |-> events,
     timedOut |-> timedOut, reachedMaxIterations |-> FALSE, unreadErr |-> <<>>]

\* the result returned when the iteration limit is reached before running
CeilingResult ==
    [present |-> TRUE, exitCode |-> 1,
     output |-> << <<"REACHED MAX ITERATIONS">>, <<"Cannot continue">> >>,
     events |-> <<>>, timedOut |-> FALSE, reachedMaxIterations |-> TRUE,
     unreadErr |-> <<>>]

\* variant: the limit is compared one iteration late
IterationExceededOffByOne(iteration, config) ==
    GreaterThan(iteration - 1, config.maxIterations)

\* iteration > config.maxIterations
IterationExceeded(iteration, config) == GreaterThan(iteration, config.maxIterations)

\* variant: the directive is honoured whatever the role
IsManagerAnyRole(role) == TRUE

\* role.toLowerCase() === 'manage'
IsManager(role) == toLowerCase(role) = "manage"

\* variant: the output of every role is searched for a task block
IsPlannerAnyRole(role) == TRUE

\* role.toLowerCase() === 'plan'
IsPlanner(role) == toLowerCase(role) = "plan"

\* { ...config, ...subArgs, role: subRole }
SubConfig(config, subArgs, subRole) ==
    [config EXCEPT !.config = subArgs.config,
                   !.model = subArgs.model,
                   !.maxIterations = subArgs.maxIterations,
                   !.tasks = subArgs.tasks,
                   !.help = subArgs.help,
                   !.version = subArgs.version,
                   !.role = Str(subRole)]

\* { ...config, continuationPrompt }
ManagerConfig(config, continuationPrompt) ==
    [config EXCEPT !.continuationPrompt = continuationPrompt]

\* { ...config, currentIteration: iteration }
AgentConfig(config, iteration) ==
    [config EXCEPT !.currentIteration = Num(iteration)]

(***************************************************************************)
(* utils/events.js: a stderr line is the JSON value it parses to (kind is  *)
(* "object", "array", "primitive" or "invalid"); absent fields are "".     *)
(***************************************************************************)
StatusLine(agent, status) ==
    [kind |-> "object", type |-> "status", agent |-> agent, status |-> status]

\* parseEventStream(stderrLine) returns an event (not null)
IsEvent(line) == line.kind = "object" /\ line.type /= "" /\ line.agent /= ""

(***************************************************************************)
(* What an agent process may write to its standard output.                 *)
(***************************************************************************)
Invoke(role, args) ==
    <<"**INVOKE**:", "ralph-thinks-first", "--role", role>> \o args

OutWorking == << <<"Working on the next task">> >>
OutComplete == << <<"**AGENT COMPLETE**">> >>
OutMaxIterations == << <<"REACHED MAX ITERATIONS">>, <<"Cannot continue">> >>
OutInvokePlan == << <<"Starting with planning">>, Invoke("plan", <<>>) >>
OutInvokePlanArgs ==
    << Invoke("PLAN", <<"--max-iterations", "1", "--model", "opus", "--tasks", "ALT.md">>) >>
OutInvokeManage == << Invoke("manage", <<"--max-iterations", "1">>) >>
OutCompleteInvoke ==
    << <<"ALL_TASKS_COMPLETE">>, Invoke("code", <<"--max-iterations", "1">>) >>
OutTasksBlock ==
    << <<beginDelimiter, "- [ ] A", endDelimiter>>, <<"**AGENT COMPLETE**">> >>
\* a task block before the max-iteration marker, and one with no marker
OutTasksBlockMax ==
    << <<beginDelimiter, "- [ ] A", endDelimiter, "REACHED MAX ITERATIONS">> >>
OutTasksBlockOnly == << <<"Plan:", beginDelimiter, "- [ ] A", endDelimiter>> >>

Outputs ==
    {OutWorking, OutComplete, OutMaxIterations, OutInvokePlan, OutInvokePlanArgs,
     OutInvokeManage, OutCompleteInvoke, OutTasksBlock, OutTasksBlockMax,
     OutTasksBlockOnly}

\* roles a run is started with (--role; 'manage' when absent)
TopRoles == {"manage", "PLAN", "code", "bogus"}

\* the task file before the run
OldTasks == << <<"- [ ] old">> >>

(***************************************************************************)
(* The event protocol on the error stream, at the level of text.  A text   *)
(* is a sequence of characters; a character is a JSON punctuation mark, a  *)
(* quote, a space, a line feed, a literal (null, true, false, 0, 7) or a   *)
(* run of letters.  The letter "é" takes two bytes on the wire (C3 A9),    *)
(* every other character one.                                              *)
(***************************************************************************)
Quote == "\""
LineFeed == "\n"

\* TextEncoder: the bytes of a text
RECURSIVE EncodeUtf8(_)
EncodeUtf8(chars) ==
    IF chars = <<>> THEN <<>>
    ELSE (IF Head(chars) = "é" THEN <<"C3", "A9">> ELSE <<Head(chars)>>)
         \o EncodeUtf8(Tail(chars))

\* new TextDecoder().decode(chunk): each call decodes its chunk on its own,
\* so that a lead byte or a continuation byte without its partner in the
\* same chunk becomes U+FFFD
DecodeChunk(bytes) ==
    LET paired(i) == bytes[i] = "C3" /\ i < Len(bytes) /\ bytes[i + 1] = "A9"
        char(i) ==
            IF paired(i) THEN "é"
            ELSE IF bytes[i] = "A9" /\ i > 1 /\ paired(i - 1) THEN ""
            ELSE IF bytes[i] \in {"C3", "A9"} THEN "U+FFFD"
            ELSE bytes[i]
    IN SelectSeq([i \in 1..Len(bytes) |-> char(i)], LAMBDA ch : ch /= "")

\* String.prototype.trim on a line of characters
RECURSIVE TrimChars(_)
TrimChars(chars) ==
    IF chars = <<>> THEN <<>>
    ELSE IF Head(chars) \in {" ", LineFeed} THEN TrimChars(Tail(chars))
    ELSE IF chars[Len(chars)] \in {" ", LineFeed}
         THEN TrimChars(SubSeq(chars, 1, Len(chars) - 1))
    ELSE chars

\* String.prototype.split("\n"): the lines of a text, at least one
RECURSIVE SplitLines(_)
SplitLines(chars) ==
    LET feeds == {i \in 1..Len(chars) : chars[i] = LineFeed}
    IN IF feeds = {} THEN <<chars>>
       ELSE LET i == CHOOSE k \in feeds : \A j \in feeds : k <= j
            IN <<SubSeq(chars, 1, i - 1)>> \o SplitLines(SubSeq(chars, i + 1, Len(chars)))

(***************************************************************************)
(* JSON values: strings, literals and the empty array; undefined is a      *)
(* value of the language only.  An object is the sequence of its members   *)
(* in insertion order.                                                     *)
(***************************************************************************)
JStr(chars) == [j |-> "string", c |-> chars]
JLit(name) == [j |-> name, c |-> <<>>]
JUndefined == [j |-> "undefined", c |-> <<>>]
JArray == [j |-> "array", c |-> <<>>]
Member(key, value) == [k |-> key, v |-> value]

\* a value that counts as false in a condition
Falsy(value) ==
    \/ value.j \in {"null", "false", "0", "undefined"}
    \/ value = JStr(<<>>)

\* obj[key] = value, keeping the place of a key that is already there
SetMember(obj, key, value) ==
    IF \E i \in 1..Len(obj) : obj[i].k = key
    THEN [i \in 1..Len(obj) |-> IF obj[i].k = key THEN Member(key, value) ELSE obj[i]]
    ELSE Append(obj, Member(key, value))

\* { ...obj, ...more }
RECURSIVE Spread(_, _)
Spread(obj, more) ==
    IF more = <<>> THEN obj
    ELSE Spread(SetMember(obj, Head(more).k, Head(more).v), Tail(more))

Keys(obj) == {obj[i].k : i \in 1..Len(obj)}
HasKey(obj, key) == key \in Keys(obj)

\* obj[key], undefined when the key is absent
Get(obj, key) ==
    IF HasKey(obj, key)
    THEN (CHOOSE m \in {obj[i] : i \in 1..Len(obj)} : m.k = key).v
    ELSE JUndefined

\* two objects have the same keys with the same values
SameObject(a, b) ==
    /\ Keys(a) = Keys(b)
    /\ \A key \in Keys(a) : Get(a, key) = Get(b, key)

(***************************************************************************)
(* JSON.stringify of an object: members whose value is undefined are left  *)
(* out.                                                                    *)
(***************************************************************************)
ValueText(value) ==
    CASE value.j = "string" -> <<Quote>> \o value.c \o <<Quote>>
      [] value.j = "array" -> <<"[", "]">>
      [] OTHER -> <<value.j>>

RECURSIVE MembersText(_, _)
MembersText(obj, first) ==
    IF obj = <<>> THEN <<>>
    ELSE IF Head(obj).v = JUndefined THEN MembersText(Tail(obj), first)
    ELSE (IF first THEN <<>> ELSE <<",">>)
         \o <<Quote>> \o Head(obj).k \o <<Quote, ":">> \o ValueText(Head(obj).v)
         \o MembersText(Tail(obj), FALSE)

stringify(obj) == <<"{">> \o MembersText(obj, TRUE) \o <<"}">>

(***************************************************************************)
(* JSON.parse: the text is cut into tokens, the tokens are read as one     *)
(* value.  The result is [kind, obj, v] with kind "object", "array",       *)
(* "primitive" or "invalid" (a SyntaxError).                               *)
(***************************************************************************)
BadToken == [t |-> "bad", c |-> <<>>]

\* the tokens of a text; a string is one token
RECURSIVE Tokens(_)
Tokens(chars) ==
    IF chars = <<>> THEN <<>>
    ELSE LET ch == Head(chars)
         IN IF ch = " " THEN Tokens(Tail(chars))
            ELSE IF ch \in {"{", "}", "[", "]", ":", ","}
                 THEN <<[t |-> ch, c |-> <<>>]>> \o Tokens(Tail(chars))
            ELSE IF ch \in {"null", "true", "false", "0", "7"}
                 THEN <<[t |-> "literal", c |-> <<ch>>]>> \o Tokens(Tail(chars))
            ELSE IF ch = Quote
                 THEN LET closing == {i \in 2..Len(chars) : chars[i] = Quote}
                      IN IF closing = {} THEN <<BadToken>>
                         ELSE LET e == CHOOSE k \in closing : \A j \in closing : k <= j
                              IN <<[t |-> "string", c |-> SubSeq(chars, 2, e - 1)]>>
                                 \o Tokens(SubSeq(chars, e + 1, Len(chars)))
            ELSE <<BadToken>>

Invalid == [kind |-> "invalid", obj |-> <<>>, v |-> JUndefined]

\* a token sequence that is one string, one literal or the empty array
IsSimpleValue(toks) ==
    \/ Len(toks) = 1 /\ toks[1].t \in {"string", "literal"}
    \/ Len(toks) = 2 /\ toks[1].t = "[" /\ toks[2].t = "]"

SimpleValue(toks) ==
    IF Len(toks) = 2 THEN JArray
    ELSE IF toks[1].t = "string" THEN JStr(toks[1].c)
    ELSE JLit(toks[1].c[1])

\* the members between the braces: key : value , key : value ...
\* (the result is a sequence of one element Invalid-marker when malformed)
RECURSIVE ParseMembers(_, _)
ParseMembers(toks, obj) ==
    IF Len(toks) < 3 \/ toks[1].t /= "string" \/ toks[2].t /= ":"
    THEN [ok |-> FALSE, obj |-> <<>>]
    ELSE LET width == IF toks[3].t = "[" THEN 2 ELSE 1
             value == SubSeq(toks, 3, 2 + width)
             rest == SubSeq(toks, 3 + width, Len(toks))
         IN IF Len(toks) < 2 + width \/ ~IsSimpleValue(value)
            THEN [ok |-> FALSE, obj |-> <<>>]
            ELSE LET next == SetMember(obj, toks[1].c, SimpleValue(value))
                 IN IF rest = <<>> THEN [ok |-> TRUE, obj |-> next]
                    ELSE IF rest[1].t /= "," THEN [ok |-> FALSE, obj |-> <<>>]
                    ELSE ParseMembers(Tail(rest), next)

\* the elements between the brackets: simple values separated by commas
RECURSIVE IsElements(_)
IsElements(toks) ==
    IF toks = <<>> THEN FALSE
    ELSE LET width == IF toks[1].t = "[" THEN 2 ELSE 1
         IN /\ Len(toks) >= width
            /\ IsSimpleValue(SubSeq(toks, 1, width))
            /\ \/ Len(toks) = width
               \/ /\ Len(toks) > width
                  /\ toks[width + 1].t = ","
                  /\ IsElements(SubSeq(toks, width + 2, Len(toks)))

parse(chars) ==
    LET toks == Tokens(chars)
        n == Len(toks)
    IN IF n = 0 \/ \E i \in 1..n : toks[i] = BadToken THEN Invalid
       ELSE IF n = 1 /\ toks[1].t \in {"string", "literal"}
            THEN [kind |-> "primitive", obj |-> <<>>, v |-> SimpleValue(toks)]
       ELSE IF toks[1].t = "[" /\ toks[n].t = "]"
            THEN IF n = 2 \/ IsElements(SubSeq(toks, 2, n - 1))
                 THEN [kind |-> "array", obj |-> <<>>, v |-> JArray]
                 ELSE Invalid
       ELSE IF toks[1].t = "{" /\ toks[n].t = "}"
            THEN IF n = 2 THEN [kind |-> "object", obj |-> <<>>, v |-> JUndefined]
                 ELSE LET m == ParseMembers(SubSeq(toks, 2, n - 1), <<>>)
                      IN IF m.ok THEN [kind |-> "object", obj |-> m.obj, v |-> JUndefined]
                         ELSE Invalid
       ELSE Invalid

(***************************************************************************)
(* utils/events.js                                                         *)
(***************************************************************************)
\* the arguments parseEventStream may be called with: a text, or a value
\* that is not a string
TextInput(chars) == [isString |-> TRUE, chars |-> chars, v |-> JUndefined]
OtherInput(value) == [isString |-> FALSE, chars |-> <<>>, v |-> value]

\* what parseEventStream returns for "not an event" (null)
NoEvent == [event |-> FALSE, obj |-> <<>>]

\* variant: the agent field is not required
parseEventStreamTypeOnly(stderrLine) ==
    IF ~stderrLine.isString \/ stderrLine.chars = <<>> THEN NoEvent
    ELSE LET trimmed == TrimChars(stderrLine.chars)
             parsed == parse(trimmed)
         IN IF trimmed = <<>> THEN NoEvent
            ELSE IF parsed.kind /= "object" THEN NoEvent
            ELSE IF Falsy(Get(parsed.obj, <<"type">>)) THEN NoEvent
            ELSE [event |-> TRUE, obj |-> parsed.obj]

\* parseEventStream(stderrLine)
parseEventStream(stderrLine) ==
    IF ~stderrLine.isString \/ stderrLine.chars = <<>> THEN NoEvent
    ELSE LET trimmed == TrimChars(stderrLine.chars)
             parsed == parse(trimmed)
         IN IF trimmed = <<>> THEN NoEvent
            ELSE IF parsed.kind /= "object" THEN NoEvent
            ELSE IF Falsy(Get(parsed.obj, <<"type">>)) \/ Falsy(Get(parsed.obj, <<"agent">>))
                 THEN NoEvent
            ELSE [event |-> TRUE, obj |-> parsed.obj]

\* the line emitEvent(type, agent, data) writes to the error stream
emitEvent(type, agent, data) ==
    LET event == Spread(<<Member(<<"type">>, type), Member(<<"agent">>, agent)>>, data)
    IN stringify(event) \o <<LineFeed>>

(***************************************************************************)
(* The error stream between an agent and the stderrReader of spawnAgent,   *)
(* byte by byte: what the agent has written, what the reader has not read  *)
(* yet, the reader's buffer and the events it has decoded.  emitted is the *)
(* last emitEvent call made on its own, call the last parseEventStream     *)
(* call.                                                                   *)
(***************************************************************************)
IdlePipe ==
    [written |-> <<>>, unread |-> <<>>, writes |-> 0, open |-> TRUE,
     buffer |-> <<>>, events |-> <<>>, done |-> FALSE,
     emitted |-> [made |-> FALSE, type |-> JUndefined, agent |-> JUndefined,
                  data |-> <<>>, line |-> <<>>],
     call |-> [made |-> FALSE, input |-> OtherInput(JUndefined), returned |-> NoEvent]]

(***************************************************************************)
(* main() before the run: the command line, the role, whether the user was *)
(* asked for a project description (rl.question) and the description       *)
(* (config.initialPrompt, a text; <<>> when there is none).                *)
(***************************************************************************)
StartupAt(argv) ==
    [pc |-> "start", argv |-> argv, role |-> "", asked |-> FALSE,
     initialPrompt |-> <<>>, code |-> 0]

\* main() is not being followed
NoStartup == [StartupAt(<<>>) EXCEPT !.pc = "none"]

\* a call of buildPrompt on its own: its arguments and, once it has
\* returned, the prompt
BuildCall(rolePrompt, tasksContent, config) ==
    [rolePrompt |-> rolePrompt, tasksContent |-> tasksContent, config |-> config,
     pc |-> "call", prompt |-> <<>>]

\* no call of buildPrompt is being followed
NothingBuilt == [BuildCall(<<>>, <<>>, [tasksFile |-> Undef]) EXCEPT !.pc = "none"]

(***************************************************************************)
(* State.                                                                  *)
(***************************************************************************)
\* the configuration main() hands to the top-level frame (loadConfig, and
\* config.initialPrompt for the manage role)
TopConfig(role, maxIterations, timeout) ==
    [claudeCommand |-> Str("claude"), model |-> Str("claude-sonnet-4-5"),
     maxIterations |-> Num(maxIterations), tasksFile |-> Str("TASKS.md"),
     timeout |-> timeout, role |-> Str(role), continuationPrompt |-> <<>>,
     initialPrompt |-> IF role = "manage" THEN <<"Build a parser">> ELSE <<>>,
     currentIteration |-> Undef, config |-> Undef, tasks |-> Undef,
     help |-> Undef, version |-> Undef]

\* one activation chain of runAgentWithOrchestration: its parameters, the
\* point it has reached and its local result
Frame(role, config, iteration) ==
    [role |-> role, config |-> config, iteration |-> iteration,
     pc |-> "invoking", result |-> NoResult, spawns |-> 0]

\* the locals of spawnAgent while no call of it is in progress
SupIdle ==
    [pc |-> "idle", output |-> <<>>, events |-> <<>>, timedOut |-> FALSE, timer |-> FALSE]

\* no process is attached to a supervisor
NoProcess ==
    [alive |-> FALSE, killed |-> FALSE, code |-> 0, role |-> "", stdin |-> <<>>,
     cmd |-> <<>>, out |-> <<>>, outOpen |-> FALSE, err |-> <<>>, errOpen |-> FALSE]

NotExited == [exited |-> FALSE, code |-> 0, error |-> ""]

Init ==
    /\ \E role \in TopRoles, m \in 1..MaxIter, timeout \in {Undef, Num(50)} :
           frames = << Frame(role, TopConfig(role, m, timeout), 1) >>
    /\ proc = NoProcess
    /\ sup = SupIdle
    /\ orphans = 0
    /\ files \in {[f \in {"TASKS.md", "ALT.md"} |-> IF f = "TASKS.md" THEN c ELSE NullText] :
                      c \in {NullText, OldTasks}}
    /\ exitStatus = NotExited
    /\ errPipe = IdlePipe
    /\ startup = NoStartup
    /\ built = NothingBuilt

Top == Len(frames)
Running == ~exitStatus.exited /\ Top >= 1

(***************************************************************************)
(* runAgentWithOrchestration: the decisions of one activation.             *)
(***************************************************************************)
\* variant: the directive is looked for before the completion signal
InterpretationDirectiveFirst(role, output) ==
    IF IsManager(role) /\ parseInvokeDirective(output).found THEN "invoke"
    ELSE IF hasCompletionSignal(output) THEN "complete"
    ELSE IF hasMaxIterationsSignal(output) THEN "maxIterations"
    ELSE "none"

\* what the checks on result.output decide, in the order of the code
\* variant: the directive is looked for before the max-iteration marker
InterpretationDirectiveBeforeMax(role, output) ==
    IF hasCompletionSignal(output) THEN "complete"
    ELSE IF IsManager(role) /\ parseInvokeDirective(output).found THEN "invoke"
    ELSE IF hasMaxIterationsSignal(output) THEN "maxIterations"
    ELSE "none"

Interpretation(role, output) ==
    IF hasCompletionSignal(output) THEN "complete"
    ELSE IF hasMaxIterationsSignal(output) THEN "maxIterations"
    ELSE IF IsManager(role) /\ parseInvokeDirective(output).found THEN "invoke"
    ELSE "none"

\* variant: the sub-agent is started at the second iteration
SubFrameAtSecondIteration(config, directive) ==
    LET subRole == toLowerCase(directive.role)
        subArgs == parseArgs(SplitArgs(directive.additionalArgs))
    IN Frame(subRole, SubConfig(config, subArgs, subRole), 2)

\* the frame of the sub-agent a directive starts
SubFrame(config, directive) ==
    LET subRole == toLowerCase(directive.role)
        subArgs == parseArgs(SplitArgs(directive.additionalArgs))
    IN Frame(subRole, SubConfig(config, subArgs, subRole), 1)

\* variant: the extracted block is added to the end of the file
SaveTasksAppending(fs, config, output) ==
    LET tasksContent == extractTasksContent(output)
        path == JSString(OrElse(config.tasksFile, Str("TASKS.md")))
    IN IF output /= <<>> /\ HasTasksContent(tasksContent) /\ path \in DOMAIN fs
       THEN [fs EXCEPT ![path] = IF @ = NullText THEN tasksContent ELSE @ \o tasksContent]
       ELSE fs

\* variant: a block is written whenever the delimiters are found, even if
\* nothing is between them
SaveTasksTruncating(fs, config, output) ==
    LET tasksContent == extractTasksContent(output)
        path == JSString(OrElse(config.tasksFile, Str("TASKS.md")))
    IN IF output /= <<>> /\ tasksContent /= NullText /\ path \in DOMAIN fs
       THEN [fs EXCEPT ![path] = tasksContent]
       ELSE fs

\* the task file after extracting a plan agent's output and saving it
\* (writeTasksFile to config.tasksFile || 'TASKS.md'); a path outside the
\* domain of the file system cannot be written: writeTasksFile throws, the
\* catch around it prints a warning and the file system stays as it was
SaveTasks(fs, config, output) ==
    LET tasksContent == extractTasksContent(output)
        path == JSString(OrElse(config.tasksFile, Str("TASKS.md")))
    IN IF output /= <<>> /\ HasTasksContent(tasksContent) /\ path \in DOMAIN fs
       THEN [fs EXCEPT ![path] = tasksContent]
       ELSE fs

\* variant: the manager is resumed without the continuation prompt
AfterSubNoContinuation(parent, subRole, subResult) ==
    [parent EXCEPT !.iteration = parent.iteration + 1,
                   !.pc = "invoking",
                   !.result = NoResult]

\* variant: a failed sub-agent ends the manager with the sub-agent's result
AfterSubAbortOnFailure(parent, subRole, subResult) ==
    IF subResult.exitCode /= 0
    THEN [parent EXCEPT !.pc = "terminal", !.result = subResult]
    ELSE [parent EXCEPT
             !.config = ManagerConfig(parent.config,
                            ContinuationPrompt(subRole, subResult.exitCode,
                                               hasCompletionSignal(subResult.output))),
             !.iteration = parent.iteration + 1,
             !.pc = "invoking",
             !.result = NoResult]

\* the manager frame after its sub-agent returned subResult: the recursive
\* call runAgentWithOrchestration(role, managerConfig, iteration + 1)
\* variant: the manager holds on to the sub-agent's result when it resumes
AfterSubKeepingResult(parent, subRole, subResult) ==
    [parent EXCEPT
        !.config = ManagerConfig(parent.config,
                       ContinuationPrompt(subRole, subResult.exitCode,
                                          hasCompletionSignal(subResult.output))),
        !.iteration = parent.iteration + 1,
        !.pc = "invoking",
        !.result = subResult]

AfterSub(parent, subRole, subResult) ==
    [parent EXCEPT
        !.config = ManagerConfig(parent.config,
                       ContinuationPrompt(subRole, subResult.exitCode,
                                          hasCompletionSignal(subResult.output))),
        !.iteration = parent.iteration + 1,
        !.pc = "invoking",
        !.result = NoResult]

\* variant: the recursive call is not awaited
SubFrameNotAwaited(frame) == TRUE

\* the recursive call returns only when the sub-agent's frame has returned
SubFrameReturned(frame) == frame.pc = "terminal"

\* variant: the timer is never started
TimerNeverArmed(config) == FALSE

\* config.timeout is set: the timer is armed
TimerArmed(config) == Truthy(config.timeout)

\* variant: what stands for a missing file is passed on as its content
FullPromptMissingAsContent(role, config, fs) ==
    LET path == JSString(OrElse(config.tasksFile, Str("TASKS.md")))
        tasksContent == IF path \in DOMAIN fs THEN fs[path] ELSE <<>>
    IN buildPrompt(RoleTemplate(toLowerCase(role)), tasksContent, config)

\* the prompt spawnAgent writes to the process
FullPrompt(role, config, fs) ==
    LET path == JSString(OrElse(config.tasksFile, Str("TASKS.md")))
        tasksContent == IF path \in DOMAIN fs /\ fs[path] /= NullText THEN fs[path] ELSE <<>>
    IN buildPrompt(RoleTemplate(toLowerCase(role)), tasksContent, config)

\* the command line of the process
Command(config) ==
    <<JSString(OrElse(config.claudeCommand, Str("claude")))>>
    \o (IF Truthy(config.model) THEN <<"--model", JSString(config.model)>> ELSE <<>>)

NewProcess(role, config, fs, out) ==
    [alive |-> TRUE, killed |-> FALSE, code |-> 0,
     role |-> toLowerCase(role), stdin |-> FullPrompt(role, config, fs),
     cmd |-> Command(config), out |-> out, outOpen |-> TRUE,
     err |-> <<StatusLine(toLowerCase(role), "running")>>, errOpen |-> TRUE]

SetTop(f) == [frames EXCEPT ![Top] = f]

(***************************************************************************)
(* Actions of the engine.                                                  *)
(***************************************************************************)
\* iteration > config.maxIterations: return the iteration-limit result
CeilingReached ==
    /\ Running
    /\ frames[Top].pc = "invoking"
    /\ IterationExceeded(frames[Top].iteration, frames[Top].config)
    /\ frames' = SetTop([frames[Top] EXCEPT !.pc = "terminal", !.result = CeilingResult])
    /\ UNCHANGED <<built, startup, errPipe, proc, sup, orphans, files, exitStatus>>

\* loadRolePrompt throws: the error unwinds every frame to main's catch
InvalidRole ==
    /\ Running
    /\ frames[Top].pc = "invoking"
    /\ ~IterationExceeded(frames[Top].iteration, frames[Top].config)
    /\ ~RoleIsValid(frames[Top].role)
    /\ frames' = <<>>
    /\ exitStatus' = [exited |-> TRUE, code |-> 1, error |-> "Invalid role"]
    /\ UNCHANGED <<built, startup, errPipe, proc, sup, orphans, files>>

\* variant: a failed launch is reported as the result of an agent that
\* exited with code 1
SpawnFailureReturnsResult ==
    /\ Running
    /\ frames[Top].pc = "invoking"
    /\ ~IterationExceeded(frames[Top].iteration, frames[Top].config)
    /\ RoleIsValid(frames[Top].role)
    /\ frames' = SetTop([frames[Top] EXCEPT !.pc = "interpreting",
                                            !.result = AgentResult(1, <<>>, <<>>, FALSE)])
    /\ UNCHANGED <<built, startup, errPipe, proc, sup, orphans, files, exitStatus>>

\* Bun.spawn throws ENOENT: 'Claude CLI not found' unwinds to main's catch
SpawnFailure ==
    /\ Running
    /\ frames[Top].pc = "invoking"
    /\ ~IterationExceeded(frames[Top].iteration, frames[Top].config)
    /\ RoleIsValid(frames[Top].role)
    /\ frames' = <<>>
    /\ exitStatus' = [exited |-> TRUE, code |-> 1, error |-> "Claude CLI not found"]
    /\ UNCHANGED <<built, startup, errPipe, proc, sup, orphans, files>>

\* spawnAgent up to its first wait: prompt built and written, readers and
\* timer started
Spawn ==
    /\ Running
    /\ frames[Top].pc = "invoking"
    /\ ~IterationExceeded(frames[Top].iteration, frames[Top].config)
    /\ RoleIsValid(frames[Top].role)
    /\ \E out \in Outputs :
           proc' = NewProcess(frames[Top].role,
                              AgentConfig(frames[Top].config, frames[Top].iteration),
                              files, out)
    /\ sup' = [pc |-> "draining", output |-> <<>>,
               events |-> <<>>, timedOut |-> FALSE,
               timer |-> TimerArmed(frames[Top].config)]
    /\ frames' = SetTop([frames[Top] EXCEPT !.pc = "awaiting", !.spawns = @ + 1])
    /\ UNCHANGED <<built, startup, errPipe, orphans, files, exitStatus>>

(***************************************************************************)
(* The spawned process and the two readers of spawnAgent.                  *)
(***************************************************************************)
Attached == sup.pc /= "idle"

\* stdoutReader: the next chunk of standard output is pushed to output
StdoutChunk ==
    /\ Attached
    /\ proc.out /= <<>>
    /\ sup' = [sup EXCEPT !.output = Append(@, Head(proc.out))]
    /\ proc' = [proc EXCEPT !.out = Tail(@)]
    /\ UNCHANGED <<built, startup, errPipe, frames, orphans, files, exitStatus>>

\* standard output reaches end of stream
StdoutEnd ==
    /\ Attached
    /\ proc.outOpen /\ proc.out = <<>>
    /\ proc' = [proc EXCEPT !.outOpen = FALSE]
    /\ UNCHANGED <<built, startup, errPipe, frames, sup, orphans, files, exitStatus>>

\* stderrReader: the next line is parsed and, if an event, pushed to events
StderrLine ==
    /\ Attached
    /\ proc.err /= <<>>
    /\ sup' = [sup EXCEPT !.events = IF IsEvent(Head(proc.err))
                                     THEN Append(@, Head(proc.err)) ELSE @]
    /\ proc' = [proc EXCEPT !.err = Tail(@)]
    /\ UNCHANGED <<built, startup, errPipe, frames, orphans, files, exitStatus>>

\* standard error reaches end of stream
StderrEnd ==
    /\ Attached
    /\ proc.errOpen /\ proc.err = <<>>
    /\ proc' = [proc EXCEPT !.errOpen = FALSE]
    /\ UNCHANGED <<built, startup, errPipe, frames, sup, orphans, files, exitStatus>>

\* the process of the call in progress exits, having written what it writes
ProcessExit ==
    /\ Attached
    /\ proc.alive
    /\ proc.out = <<>> /\ proc.err = <<>>
    \* the exit codes proc.exited settles with; 1 stands for every non-zero code
    /\ \E c \in {0, 1} : proc' = [proc EXCEPT !.alive = FALSE, !.code = c]
    /\ UNCHANGED <<built, startup, errPipe, frames, sup, orphans, files, exitStatus>>

\* a process that outlived its call of spawnAgent exits
OrphanExit ==
    /\ orphans > 0
    /\ orphans' = orphans - 1
    /\ UNCHANGED <<built, startup, errPipe, frames, proc, sup, files, exitStatus>>

\* variant: a call that timed out returns no output and no events
ReturnDiscardingOnTimeout(exitCode) ==
    /\ frames' = SetTop([frames[Top] EXCEPT
                            !.pc = "interpreting",
                            !.result = IF sup.timedOut
                                       THEN AgentResult(exitCode, <<>>, <<>>, TRUE)
                                       ELSE AgentResult(exitCode, sup.output, sup.events,
                                                        FALSE)])
    /\ sup' = SupIdle
    /\ proc' = NoProcess
    /\ orphans' = IF proc.alive THEN orphans + 1 ELSE orphans
    /\ UNCHANGED <<built, startup, errPipe, files, exitStatus>>

\* spawnAgent returns its result to the frame that awaits it; a process that
\* has not exited stays behind, and so does the stderrReader if the error
\* stream has not ended: it goes on pushing to the events array of the result
Return(exitCode) ==
    /\ frames' = SetTop([frames[Top] EXCEPT
                            !.pc = "interpreting",
                            !.result = [AgentResult(exitCode, sup.output, sup.events,
                                                    sup.timedOut)
                                        EXCEPT !.unreadErr = proc.err]])
    /\ sup' = SupIdle
    /\ proc' = NoProcess
    /\ orphans' = IF proc.alive THEN orphans + 1 ELSE orphans
    /\ UNCHANGED <<built, startup, errPipe, files, exitStatus>>

\* both readers and proc.exited are done: the timer is cleared and the exit
\* code is the settled proc.exited
Completed ==
    /\ sup.pc = "draining"
    /\ ~proc.outOpen /\ ~proc.errOpen /\ ~proc.alive
    /\ Return(proc.code)

\* variant: the timer's callback kills the process without setting timedOut
TimeoutWithoutFlag ==
    /\ sup.pc = "draining"
    /\ sup.timer
    /\ sup' = [sup EXCEPT !.pc = "exitwait", !.timer = FALSE]
    /\ proc' = [proc EXCEPT !.killed = TRUE]
    /\ UNCHANGED <<built, startup, errPipe, frames, orphans, files, exitStatus>>

\* the timer fires first: timedOut is set and the process is sent the kill
\* signal
Timeout ==
    /\ sup.pc = "draining"
    /\ sup.timer
    /\ sup' = [sup EXCEPT !.pc = "exitwait", !.timedOut = TRUE, !.timer = FALSE]
    /\ proc' = [proc EXCEPT !.killed = TRUE]
    /\ UNCHANGED <<built, startup, errPipe, frames, orphans, files, exitStatus>>

\* after a timeout proc.exited settles within the 100 ms wait
ExitCodeReported ==
    /\ sup.pc = "exitwait"
    /\ ~proc.alive
    /\ Return(proc.code)

\* after a timeout the 100 ms wait ends first: the exit code is -1
ExitCodeUnknown ==
    /\ sup.pc = "exitwait"
    /\ proc.alive
    /\ Return(-1)

\* the stderrReader of a call that has returned reads the next line of the
\* error stream: an event is pushed to the array the returned result holds
LateStderrLine ==
    /\ Running
    /\ frames[Top].result.present
    /\ frames[Top].result.unreadErr /= <<>>
    /\ LET line == Head(frames[Top].result.unreadErr)
       IN frames' = SetTop([frames[Top] EXCEPT
                               !.result.events = IF IsEvent(line) THEN Append(@, line) ELSE @,
                               !.result.unreadErr = Tail(@)])
    /\ UNCHANGED <<built, startup, errPipe, proc, sup, orphans, files, exitStatus>>

(***************************************************************************)
(* Interpretation of the result, recursion and return.                     *)
(***************************************************************************)
\* the checks of runAgentWithOrchestration on the result of spawnAgent
Interpret ==
    /\ Running
    /\ frames[Top].pc = "interpreting"
    /\ LET f == frames[Top]
           what == Interpretation(f.role, f.result.output)
       IN CASE what = "complete" ->
                 /\ frames' = SetTop([f EXCEPT !.pc = "terminal"])
                 /\ files' = IF IsPlanner(f.role)
                             THEN SaveTasks(files, f.config, f.result.output) ELSE files
            [] what = "maxIterations" ->
                 /\ frames' = SetTop([f EXCEPT !.pc = "terminal",
                                               !.result.reachedMaxIterations = TRUE])
                 /\ files' = files
            [] what = "invoke" ->
                 /\ Top < MaxDepth
                 /\ frames' = Append(SetTop([f EXCEPT !.pc = "recursing", !.result = NoResult]),
                                     SubFrame(f.config, parseInvokeDirective(f.result.output)))
                 /\ files' = files
            [] OTHER ->
                 /\ frames' = SetTop([f EXCEPT !.pc = "terminal"])
                 /\ files' = IF IsPlanner(f.role)
                             THEN SaveTasks(files, f.config, f.result.output) ELSE files
    /\ UNCHANGED <<built, startup, errPipe, proc, sup, orphans, exitStatus>>

\* the sub-agent's frame has returned: its plan output is saved and the
\* manager calls itself with the continuation prompt and iteration + 1
SubReturn ==
    /\ Running
    /\ Top > 1
    /\ SubFrameReturned(frames[Top])
    /\ frames[Top - 1].pc = "recursing"
    /\ LET sub == frames[Top]
           parent == frames[Top - 1]
       IN /\ frames' = [SubSeq(frames, 1, Top - 1) EXCEPT
                           ![Top - 1] = AfterSub(parent, sub.role, sub.result)]
          /\ files' = IF sub.role = "plan"
                      THEN SaveTasks(files, parent.config, sub.result.output) ELSE files
    /\ UNCHANGED <<built, startup, errPipe, proc, sup, orphans, exitStatus>>

\* variant: the iteration-exhausted flag is looked at before the timeout flag
MainExitCodeCeilingFirst(result) ==
    IF result.reachedMaxIterations THEN 2
    ELSE IF result.timedOut THEN 124
    ELSE result.exitCode

\* process.exit of main() with the top-level frame's result
MainExitCode(result) ==
    IF result.timedOut THEN 124
    ELSE IF result.reachedMaxIterations THEN 2
    ELSE result.exitCode

\* main(): the top-level frame has returned
Exit ==
    /\ Running
    /\ Top = 1
    /\ frames[1].pc = "terminal"
    /\ exitStatus' = [exited |-> TRUE, code |-> MainExitCode(frames[1].result), error |-> ""]
    /\ UNCHANGED <<built, startup, errPipe, frames, proc, sup, orphans, files>>

Next ==
    \/ CeilingReached
    \/ InvalidRole
    \/ SpawnFailure
    \/ Spawn
    \/ StdoutChunk
    \/ StdoutEnd
    \/ StderrLine
    \/ StderrEnd
    \/ ProcessExit
    \/ OrphanExit
    \/ Completed
    \/ Timeout
    \/ ExitCodeReported
    \/ ExitCodeUnknown
    \/ LateStderrLine
    \/ Interpret
    \/ SubReturn
    \/ Exit

Spec == Init /\ [][Next]_vars

\* a run with a timeout configured and a limit of one iteration for the
\* top-level frame
TimedInit ==
    /\ \E role \in TopRoles :
           frames = << Frame(role, TopConfig(role, 1, Num(50)), 1) >>
    /\ proc = NoProcess
    /\ sup = SupIdle
    /\ orphans = 0
    /\ files \in {[f \in {"TASKS.md", "ALT.md"} |-> IF f = "TASKS.md" THEN c ELSE NullText] :
                      c \in {NullText, OldTasks}}
    /\ exitStatus = NotExited
    /\ errPipe = IdlePipe
    /\ startup = NoStartup
    /\ built = NothingBuilt

\* timers fire: the timeout timer unless it is cleared first, and the 100 ms
\* wait for the exit code always ends
TimedSpec ==
    /\ TimedInit
    /\ [][Next]_vars
    /\ WF_vars(Timeout)
    /\ WF_vars(ExitCodeReported \/ ExitCodeUnknown)

(***************************************************************************)
(* The event protocol: an agent writing to its error stream, the           *)
(* stderrReader of spawnAgent reading it in chunks, and parseEventStream   *)
(* called on its own.                                                      *)
(***************************************************************************)
Str1(word) == JStr(<<word>>)
Quoted(word) == <<Quote, word, Quote>>

\* arguments emitEvent is called with
EmitArgs ==
    { [type |-> Str1("status"), agent |-> Str1("code"),
       data |-> <<Member(<<"status">>, Str1("running"))>>],
      [type |-> Str1("output"), agent |-> Str1("plan"),
       data |-> <<Member(<<"message">>, Str1("é"))>>],
      [type |-> Str1("error"), agent |-> Str1("code"),
       data |-> <<Member(<<"error">>, Str1("ENOENT")), Member(<<"detail">>, JUndefined)>>],
      [type |-> Str1("custom"), agent |-> Str1("code"),
       data |-> <<Member(<<"type">>, Str1("error")), Member(<<"n">>, JLit("7"))>>],
      [type |-> Str1("status"), agent |-> Str1("plan"),
       data |-> <<Member(<<"agent">>, JLit("null"))>>],
      [type |-> Str1("status"), agent |-> Str1("manage"), data |-> <<>>],
      [type |-> JStr(<<>>), agent |-> Str1("code"), data |-> <<>>],
      [type |-> Str1("status"), agent |-> JUndefined, data |-> <<>>] }

\* what an agent writes to its error stream: event lines, a line that is
\* not JSON, and an event without the final line feed
StderrTexts ==
    { emitEvent(Str1("status"), Str1("code"), <<Member(<<"status">>, Str1("running"))>>),
      emitEvent(Str1("output"), Str1("plan"), <<Member(<<"message">>, Str1("é"))>>),
      <<"Warning", LineFeed>>,
      <<" ", "{">> \o Quoted("type") \o <<":">> \o Quoted("output") \o <<",">>
          \o Quoted("agent") \o <<":">> \o Quoted("doc") \o <<"}", " ">> }

\* values parseEventStream is called with directly
DecoderObjects ==
    { <<Member(<<"type">>, Str1("status")), Member(<<"agent">>, Str1("code")),
        Member(<<"timestamp">>, Str1("T12")), Member(<<"tags">>, JArray)>>,
      <<Member(<<"agent">>, JLit("7")), Member(<<"type">>, JLit("true"))>>,
      <<Member(<<"type">>, Str1("unknown")), Member(<<"agent">>, JArray)>>,
      <<Member(<<"type">>, JStr(<<>>)), Member(<<"agent">>, Str1("code"))>>,
      <<Member(<<"type">>, Str1("status")), Member(<<"agent">>, JLit("null"))>>,
      <<Member(<<"type">>, JLit("0")), Member(<<"agent">>, JLit("false"))>>,
      <<Member(<<"foo">>, Str1("bar"))>>,
      <<Member(<<"type">>, Str1("status"))>>,
      <<Member(<<"agent">>, Str1("code"))>>,
      <<>> }

NonStringInputs == {OtherInput(JLit("null")), OtherInput(JUndefined), OtherInput(JLit("7")),
                    OtherInput(JArray)}
BlankInputs == {TextInput(<<>>), TextInput(<<" ", " ">>), TextInput(<<LineFeed, " ">>)}
UnparseableInputs ==
    {TextInput(<<"Warning">>),
     TextInput(<<"not", " ", "json">>),
     TextInput(<<"{", "incomplete">>),
     TextInput(<<"{">> \o Quoted("missing") \o <<":">> \o Quoted("brace")),
     TextInput(<<"{">> \o Quoted("type") \o <<":">> \o <<Quote, "sta">>),
     TextInput(<<"{">> \o Quoted("type") \o <<":", "7", ",", "}">>)}
NonObjectInputs ==
    {TextInput(<<"[", "]">>), TextInput(<<"[", "7", ",", "null", "]">>),
     TextInput(Quoted("just")), TextInput(<<"7">>), TextInput(<<"null">>)}

DecoderInputs ==
    NonStringInputs \cup BlankInputs \cup UnparseableInputs \cup NonObjectInputs
    \cup {TextInput(stringify(obj)) : obj \in DecoderObjects}
    \cup {TextInput(<<" ">> \o stringify(obj) \o <<LineFeed>>) : obj \in DecoderObjects}

\* the events the reader pushes for a sequence of lines
RECURSIVE EventsOf(_)
EventsOf(lines) ==
    IF lines = <<>> THEN <<>>
    ELSE LET event == parseEventStream(TextInput(Head(lines)))
         IN (IF event.event THEN <<event.obj>> ELSE <<>>) \o EventsOf(Tail(lines))

\* the last parseEventStream call the reader made for a sequence of lines
LastCall(lines, before) ==
    IF lines = <<>> THEN before
    ELSE [made |-> TRUE, input |-> TextInput(lines[Len(lines)]),
          returned |-> parseEventStream(TextInput(lines[Len(lines)]))]

OtherVars == <<frames, proc, sup, orphans, files, exitStatus, startup, built>>

\* emitEvent(type, agent, data) is called on its own, the line it writes
\* being captured
EmitEvent ==
    /\ errPipe.done
    /\ errPipe.written = <<>>
    /\ \E a \in EmitArgs :
         errPipe' = [errPipe EXCEPT
                       !.emitted = [made |-> TRUE, type |-> a.type, agent |-> a.agent,
                                    data |-> a.data,
                                    line |-> emitEvent(a.type, a.agent, a.data)]]
    /\ UNCHANGED OtherVars

\* the agent writes to its error stream
WriteText ==
    /\ errPipe.open
    /\ errPipe.writes < MaxWrites
    /\ \E text \in StderrTexts :
         errPipe' = [errPipe EXCEPT
                       !.written = @ \o EncodeUtf8(text),
                       !.unread = @ \o EncodeUtf8(text),
                       !.writes = @ + 1]
    /\ UNCHANGED OtherVars

\* the agent closes its error stream
CloseStderr ==
    /\ errPipe.open
    /\ errPipe' = [errPipe EXCEPT !.open = FALSE]
    /\ UNCHANGED OtherVars

\* the sizes a read may have: everything the pipe holds, or a part of it
ChunkSizes(unread) ==
    {k \in 1..Len(unread) : k <= MaxChunk \/ k = Len(unread)}

\* stderrReader: one pass of the loop over proc.stderr: the chunk is decoded
\* and added to the buffer, the complete lines are parsed, the last piece
\* stays in the buffer
ReadChunk ==
    /\ ~errPipe.done
    /\ \E k \in ChunkSizes(errPipe.unread) :
         LET chunk == SubSeq(errPipe.unread, 1, k)
             buffer == errPipe.buffer \o DecodeChunk(chunk)
             lines == SplitLines(buffer)
             complete == SubSeq(lines, 1, Len(lines) - 1)
         IN errPipe' = [errPipe EXCEPT
                          !.unread = SubSeq(@, k + 1, Len(@)),
                          !.buffer = lines[Len(lines)],
                          !.events = @ \o EventsOf(complete),
                          !.call = LastCall(complete, @)]
    /\ UNCHANGED OtherVars

\* variant: what is left in the buffer at the end of the stream is dropped
ReaderEndDropsRest ==
    /\ ~errPipe.done
    /\ ~errPipe.open
    /\ errPipe.unread = <<>>
    /\ errPipe' = [errPipe EXCEPT !.done = TRUE]
    /\ UNCHANGED OtherVars

\* stderrReader: the stream has ended, what is left in the buffer is parsed
\* unless it is blank
ReaderEnd ==
    /\ ~errPipe.done
    /\ ~errPipe.open
    /\ errPipe.unread = <<>>
    /\ LET rest == IF TrimChars(errPipe.buffer) /= <<>> THEN <<errPipe.buffer>> ELSE <<>>
       IN errPipe' = [errPipe EXCEPT
                        !.done = TRUE,
                        !.events = @ \o EventsOf(rest),
                        !.call = LastCall(rest, @)]
    /\ UNCHANGED OtherVars

\* parseEventStream is called on its own, no stream being read
ParseCall ==
    /\ errPipe.done
    /\ errPipe.written = <<>>
    /\ \E input \in DecoderInputs :
         errPipe' = [errPipe EXCEPT
                       !.call = [made |-> TRUE, input |-> input,
                                 returned |-> parseEventStream(input)]]
    /\ UNCHANGED OtherVars

EventInit ==
    /\ frames = <<>>
    /\ proc = NoProcess
    /\ sup = SupIdle
    /\ orphans = 0
    /\ files = [f \in {"TASKS.md", "ALT.md"} |-> NullText]
    /\ exitStatus = NotExited
    /\ errPipe = IdlePipe
    /\ startup = NoStartup
    /\ built = NothingBuilt

EventNext ==
    \/ EmitEvent
    \/ WriteText
    \/ CloseStderr
    \/ ReadChunk
    \/ ReaderEnd
    \/ ParseCall

EventSpec == EventInit /\ [][EventNext]_vars

(***************************************************************************)
(* main() up to the call of runAgentWithOrchestration: the command line is *)
(* parsed, the role is determined and, for the manage role, the project    *)
(* description is obtained.                                                *)
(***************************************************************************)
\* project descriptions given on the command line
\* Bun.argv begins with the interpreter and the script
Interpreters == {<<>>, <<"bun", "index.js">>}

PromptFlags ==
    {<<>>} \cup {<<flag, text>> : flag \in {"-p", "--prompt"}, text \in {"Build a REST API", "Create a mobile app"}}

RoleFlags ==
    {<<>>, <<"--role", "manage">>, <<"-r", "manage">>, <<"--role", "code">>,
     <<"-r", "PLAN">>, <<"--role", "MANAGE">>}

\* command lines the program is started with
CommandLines ==
    {i \o p \o r \o o : i \in Interpreters, p \in PromptFlags, r \in RoleFlags,
                        o \in {<<>>, <<"--help">>, <<"-v">>, <<"--model", "opus">>}}
    \cup {i \o r \o p : i \in Interpreters, p \in PromptFlags, r \in RoleFlags}

\* cliArgs.prompt: undefined unless parseArgs has set the member
PromptOf(cliArgs) ==
    IF "prompt" \in DOMAIN cliArgs THEN cliArgs.prompt ELSE Undef

\* config.role || 'manage', config.role being the --role argument
RoleOf(cliArgs) == JSString(OrElse(cliArgs.role, Str("manage")))

\* getInitialPrompt(cliPrompt) returns cliPrompt without asking
PromptGiven(cliPrompt) == Truthy(cliPrompt)

\* main(): arguments parsed, --help and --version served, role determined;
\* for the role 'manage' getInitialPrompt returns the description given or
\* asks the user
MainStart ==
    /\ startup.pc = "start"
    /\ LET cliArgs == parseArgs(startup.argv)
           role == RoleOf(cliArgs)
           cliPrompt == PromptOf(cliArgs)
       IN startup' =
            IF Truthy(cliArgs.help) \/ Truthy(cliArgs.version)
            THEN [startup EXCEPT !.pc = "exited", !.code = 0]
            ELSE IF role = "manage"
                 THEN IF PromptGiven(cliPrompt)
                      THEN [startup EXCEPT !.pc = "running", !.role = role,
                                           !.initialPrompt = <<JSString(cliPrompt)>>]
                      ELSE [startup EXCEPT !.pc = "asking", !.role = role,
                                           !.asked = TRUE]
                 ELSE [startup EXCEPT !.pc = "running", !.role = role]
    /\ UNCHANGED <<frames, proc, sup, orphans, files, exitStatus, errPipe, built>>

\* the user answers the question: the answer is trimmed, and an empty
\* description ends the program with exit code 1
UserAnswers ==
    /\ startup.pc = "asking"
    \* what the user types at the question, as characters
    /\ \E answer \in {<<"Build", " ", "a", " ", "game">>,
                         <<" ", "Build", " ", "a", " ", "game", " ">>, <<>>, <<" ", " ">>} :
         LET initialPrompt == TrimChars(answer)
         IN startup' =
              IF initialPrompt = <<>>
              THEN [startup EXCEPT !.pc = "exited", !.code = 1]
              ELSE [startup EXCEPT !.pc = "running", !.initialPrompt = initialPrompt]
    /\ UNCHANGED <<frames, proc, sup, orphans, files, exitStatus, errPipe, built>>

MainInit ==
    /\ frames = <<>>
    /\ proc = NoProcess
    /\ sup = SupIdle
    /\ orphans = 0
    /\ files = [f \in {"TASKS.md", "ALT.md"} |-> NullText]
    /\ exitStatus = NotExited
    /\ errPipe = IdlePipe
    /\ \E argv \in CommandLines : startup = StartupAt(argv)
    /\ built = NothingBuilt

MainNext ==
    \/ MainStart
    \/ UserAnswers

MainSpec == MainInit /\ [][MainNext]_vars

(***************************************************************************)
(* Steps of the engine, as seen in a pair of states.                       *)
(***************************************************************************)
\* a sub-agent's frame is started
PushStep == Len(frames') = Len(frames) + 1

\* a sub-agent's frame returns to the manager's frame
PopStep == Len(frames') >= 1 /\ Len(frames') = Len(frames) - 1

\* a process is spawned
SpawnStep == sup.pc = "idle" /\ sup'.pc = "draining"

\* the frame on top interprets a result
InterpretStep ==
    /\ Top >= 1
    /\ frames[Top].pc = "interpreting"
    /\ frames' /= frames
    /\ Len(frames') >= Top => frames'[Top].pc /= "interpreting"

\* the last n lines of a text
LastLines(text, n) ==
    IF Len(text) <= n THEN text ELSE SubSeq(text, Len(text) - n + 1, Len(text))

(***************************************************************************)
(* C1: a call whose iteration number is greater than the configured        *)
(* maximum ends at once with the iteration-limit result                    *)
(* (reachedMaxIterations, no events) and spawns no process: a frame past   *)
(* its limit is only ever about to check the limit or terminal with that   *)
(* result, and the call at that iteration has not spawned.                 *)
(***************************************************************************)
C1_CeilingEndsFrame ==
    \A i \in 1..Len(frames) :
        GreaterThan(frames[i].iteration, frames[i].config.maxIterations)
        => /\ frames[i].pc \in {"invoking", "terminal"}
           /\ frames[i].spawns < frames[i].iteration
           /\ frames[i].pc = "terminal"
              => /\ frames[i].result.reachedMaxIterations
                 /\ frames[i].result.events = <<>>
                 /\ frames[i].result = CeilingResult

\* a manager configured with a number as limit has ended past that limit
C1_Witness ==
    \E i \in 1..Len(frames) :
        /\ frames[i].config.maxIterations.t = "number"
        /\ frames[i].iteration > frames[i].config.maxIterations.n
        /\ frames[i].pc = "terminal"
        /\ frames[i].spawns = frames[i].iteration - 1
        /\ frames[i].spawns >= 1

(***************************************************************************)
(* C2: a directive naming a valid role makes the engine spawn a process    *)
(* for that role in a new sub-frame at iteration 1 before the manager goes *)
(* on: a sub-frame of a valid role that has ended has spawned a process.   *)
(* Stated for runs without a timeout, where every output is complete.      *)
(***************************************************************************)
C2_SubAgentSpawned ==
    \A i \in 2..Len(frames) :
        (/\ frames[i].pc = "terminal"
         /\ RoleIsValid(frames[i].role)
         /\ ~Truthy(frames[i].config.timeout))
        => frames[i].spawns >= 1

(***************************************************************************)
(* C3: the configuration of a sub-frame inherits the parent's settings:    *)
(* model, maximum iteration count, task-file path, timeout and agent       *)
(* command equal the parent's unless the directive's arguments give them,  *)
(* and then they are the parsed arguments.                                 *)
(***************************************************************************)
C3_Inherits(parent, subArgs, sub) ==
    /\ sub.model = IF subArgs.model /= Null THEN subArgs.model ELSE parent.model
    /\ sub.maxIterations = IF subArgs.maxIterations /= Null
                           THEN subArgs.maxIterations ELSE parent.maxIterations
    /\ sub.tasksFile = IF subArgs.tasks /= Null THEN subArgs.tasks ELSE parent.tasksFile
    /\ sub.timeout = parent.timeout
    /\ sub.claudeCommand = parent.claudeCommand

C3_SubConfigInherits ==
    [][PushStep =>
         C3_Inherits(frames[Top].config,
                     parseArgs(SplitArgs(
                         parseInvokeDirective(frames[Top].result.output).additionalArgs)),
                     frames'[Top + 1].config)]_vars

(***************************************************************************)
(* C4: an output without completion marker, max-iteration marker or        *)
(* directive makes the engine run the same role again at iteration + 1; a  *)
(* frame ends only on a completion marker, a max-iteration marker, the     *)
(* iteration limit or an error.  Stated for runs without a timeout, for    *)
(* agents that exit with code 0 and for frames that end below their limit. *)
(***************************************************************************)
C4_EndsOnlyOnSignal ==
    \A i \in 1..Len(frames) :
        (/\ frames[i].pc = "terminal"
         /\ ~Truthy(frames[i].config.timeout)
         /\ frames[i].result.exitCode = 0
         /\ frames[i].config.maxIterations.t = "number"
         /\ frames[i].iteration < frames[i].config.maxIterations.n)
        => \/ hasCompletionSignal(frames[i].result.output)
           \/ hasMaxIterationsSignal(frames[i].result.output)
           \/ frames[i].result = CeilingResult

(***************************************************************************)
(* C5: a manager output that holds a completion marker and a directive     *)
(* ends the frame as completed: interpreting it starts no sub-frame and    *)
(* spawns nothing, the frame becomes terminal with the result unchanged    *)
(* (not flagged iteration-exhausted), and a terminal frame never runs      *)
(* again.                                                                  *)
(***************************************************************************)
C5_CompletionBeatsDirective ==
    [][/\ (InterpretStep /\ hasCompletionSignal(frames[Top].result.output))
          => /\ Len(frames') = Len(frames)
             /\ frames'[Top].pc = "terminal"
             /\ frames'[Top].result = frames[Top].result
             /\ frames'[Top].spawns = frames[Top].spawns
             /\ proc' = proc /\ sup' = sup
       /\ \A i \in 1..Len(frames) :
              (frames[i].pc = "terminal" /\ i <= Len(frames'))
              => [frames'[i] EXCEPT !.result.events = frames[i].result.events,
                                    !.result.unreadErr = frames[i].result.unreadErr]
                 = frames[i]]_vars

\* a manager frame has ended on an output holding both marker and directive
C5_Witness ==
    \E i \in 1..Len(frames) :
        /\ toLowerCase(frames[i].role) = "manage"
        /\ frames[i].pc = "terminal"
        /\ hasCompletionSignal(frames[i].result.output)
        /\ parseInvokeDirective(frames[i].result.output).found
        /\ ~frames[i].result.reachedMaxIterations

(***************************************************************************)
(* C6: only a manager recurses: every frame that has a sub-frame is of     *)
(* role manage (in any letter case), whatever the outputs contain.         *)
(***************************************************************************)
C6_OnlyManagerRecurses ==
    \A i \in 1..(Len(frames) - 1) :
        /\ toLowerCase(frames[i].role) = "manage"
        /\ frames[i].pc = "recursing"

\* a frame of another role has ended on an output holding only a directive
C6_Witness ==
    \E i \in 1..Len(frames) :
        /\ toLowerCase(frames[i].role) \in {"plan", "code", "document"}
        /\ frames[i].role /= toLowerCase(frames[i].role)
        /\ frames[i].pc = "terminal"
        /\ parseInvokeDirective(frames[i].result.output).found
        /\ ~hasCompletionSignal(frames[i].result.output)
        /\ ~hasMaxIterationsSignal(frames[i].result.output)
        /\ ~frames[i].result.timedOut

(***************************************************************************)
(* C7: when a sub-frame returns, the manager frame is entered again once,  *)
(* at iteration + 1, with a continuation prompt that states the            *)
(* sub-agent's role, its exit code and whether its output held a           *)
(* completion marker; the prompt of the manager's next process ends with   *)
(* that block.                                                             *)
(***************************************************************************)
C7_ManagerResumedWithContinuation ==
    [][/\ PopStep
          => /\ frames'[Top - 1].role = frames[Top - 1].role
             /\ frames'[Top - 1].iteration = frames[Top - 1].iteration + 1
             /\ frames'[Top - 1].pc = "invoking"
             /\ frames'[Top - 1].spawns = frames[Top - 1].spawns
             /\ frames'[Top - 1].config.continuationPrompt =
                    << <<>>, <<>>,
                       <<"--- SUB-AGENT RESULT ---">>,
                       <<"Agent:", frames[Top].role>>,
                       <<"Exit Code:", IntString(frames[Top].result.exitCode)>>,
                       <<"Completed:",
                         IF hasCompletionSignal(frames[Top].result.output)
                         THEN "Yes" ELSE "No">>,
                       <<"--- END SUB-AGENT RESULT ---">>,
                       <<>>,
                       <<"The sub-agent has finished. What is the next step?">> >>
       /\ (SpawnStep /\ toLowerCase(frames[Top].role) = "manage"
                     /\ frames[Top].iteration >= 2)
          => /\ frames[Top].config.continuationPrompt /= <<>>
             /\ LastLines(proc'.stdin, Len(frames[Top].config.continuationPrompt))
                    = frames[Top].config.continuationPrompt]_vars

\* the manager's second process runs on a prompt that ends with the block
C7_Witness ==
    /\ Top = 1
    /\ toLowerCase(frames[1].role) = "manage"
    /\ frames[1].iteration = 2
    /\ frames[1].pc = "awaiting"
    /\ proc.alive
    /\ LastLines(proc.stdin, 7)[1] = <<"--- SUB-AGENT RESULT ---">>
    /\ LastLines(proc.stdin, 7)[2] = <<"Agent:", "plan">>
    /\ LastLines(proc.stdin, 7)[4] = <<"Completed:", "Yes">>

(***************************************************************************)
(* C8: frames run strictly one after the other: while a sub-frame exists   *)
(* its parent waits (it is neither invoking nor interpreting), the process *)
(* a supervisor serves belongs to the innermost frame, a sub-frame is      *)
(* removed only once it is terminal, and no frame below the parent of the  *)
(* innermost frame changes.  A parent has at most one sub-frame at a time. *)
(***************************************************************************)
C8_FramesSequential ==
    [][/\ \A i \in 1..(Len(frames) - 1) : frames[i].pc = "recursing"
       /\ Attached => (Top >= 1 /\ frames[Top].pc = "awaiting")
       /\ PopStep => frames[Top].pc = "terminal"
       /\ \A i \in 1..(Len(frames) - 1) :
              i < Len(frames') => frames'[i] = frames[i]]_vars

\* a sub-frame's process runs while the manager's frame waits
C8_Witness ==
    /\ Top = 2
    /\ frames[1].pc = "recursing"
    /\ frames[2].pc = "awaiting"
    /\ proc.alive
    /\ sup.output /= <<>>

(***************************************************************************)
(* C9: a sub-frame that ends with a non-zero exit code (iteration limit    *)
(* and timeout included) does not end the manager: the manager's frame is  *)
(* entered again at iteration + 1, keeps no result of the sub-frame, and   *)
(* its continuation prompt reports the exit code; the run does not exit.   *)
(***************************************************************************)
C9_FailedSubAgentResumesManager ==
    [][(PopStep /\ frames[Top].result.exitCode /= 0)
          => /\ frames'[Top - 1].pc = "invoking"
             /\ frames'[Top - 1].iteration = frames[Top - 1].iteration + 1
             /\ frames'[Top - 1].result = NoResult
             /\ frames'[Top - 1].config.continuationPrompt[5]
                    = <<"Exit Code:", IntString(frames[Top].result.exitCode)>>
             /\ exitStatus' = exitStatus]_vars

\* the manager runs again after a sub-agent that timed out with unknown
\* exit code
C9_Witness ==
    /\ Top = 1
    /\ toLowerCase(frames[1].role) = "manage"
    /\ frames[1].iteration = 2
    /\ frames[1].pc = "awaiting"
    /\ frames[1].config.continuationPrompt /= <<>>
    /\ frames[1].config.continuationPrompt[5] = <<"Exit Code:", "-1">>

(***************************************************************************)
(* C10: with a timeout configured every call of spawnAgent returns, even   *)
(* if the process never exits and its streams never end; when the timer    *)
(* fires first the result is flagged timedOut, and when the process has    *)
(* not reported an exit code by the end of the 100 ms wait the exit code   *)
(* is -1.                                                                  *)
(***************************************************************************)
C10_SupervisorReturns ==
    /\ (\E i \in 1..Len(frames) :
            frames[i].pc = "awaiting" /\ Truthy(frames[i].config.timeout))
       ~> (\A i \in 1..Len(frames) : frames[i].pc /= "awaiting")
    /\ [][/\ (sup.pc = "draining" /\ sup'.pc = "exitwait") => sup'.timedOut
          /\ (sup.pc = "exitwait" /\ sup'.pc = "idle")
             => /\ frames'[Top].pc = "interpreting"
                /\ frames'[Top].result.timedOut
                /\ frames'[Top].result.output = sup.output
                /\ proc.alive => frames'[Top].result.exitCode = -1
                /\ ~proc.alive => frames'[Top].result.exitCode = proc.code
          /\ (sup.pc = "draining" /\ sup'.pc = "idle")
             => ~frames'[Top].result.timedOut]_vars

\* a timed-out call has returned with exit code -1 while its process, which
\* closed no stream, lives on
C10_Witness ==
    /\ Top >= 1
    /\ frames[Top].pc = "interpreting"
    /\ frames[Top].result.timedOut
    /\ frames[Top].result.exitCode = -1
    /\ orphans > 0

(***************************************************************************)
(* C11: when spawnAgent returns, also after a timeout, the process it      *)
(* spawned has exited, so that no process outlives the call that spawned   *)
(* it and at most one spawned process is alive at any time.                *)
(***************************************************************************)
C11_ProcessExitedAtReturn ==
    /\ orphans = 0
    /\ orphans + (IF proc.alive THEN 1 ELSE 0) <= 1

(***************************************************************************)
(* C13: a result flagged timedOut ends its frame: interpreting it starts   *)
(* no sub-frame, and the frame becomes terminal with the flagged result.   *)
(***************************************************************************)
C13_TimedOutEndsFrame ==
    [][ (InterpretStep /\ frames[Top].result.timedOut)
          => /\ Len(frames') = Len(frames)
             /\ frames'[Top].pc = "terminal"
             /\ frames'[Top].result.timedOut ]_vars

(***************************************************************************)
(* C14: the exit code of the program is 124 when the top-level frame's     *)
(* result is flagged timed out, otherwise 2 when it is flagged             *)
(* iteration-exhausted, otherwise the exit code of the agent process; a    *)
(* run that ends with an error exits with 1.                               *)
(***************************************************************************)
C14_ExitCode ==
    exitStatus.exited =>
        IF exitStatus.error /= "" THEN exitStatus.code = 1
        ELSE /\ Len(frames) = 1
             /\ frames[1].result.present
             /\ exitStatus.code =
                  (CASE frames[1].result.timedOut -> 124
                     [] ~frames[1].result.timedOut
                        /\ frames[1].result.reachedMaxIterations -> 2
                     [] OTHER -> frames[1].result.exitCode)

\* the program has exited with 124 for a result that is flagged both timed
\* out and iteration-exhausted
C14_Witness ==
    /\ exitStatus.exited
    /\ exitStatus.error = ""
    /\ frames[1].result.timedOut
    /\ frames[1].result.reachedMaxIterations
    /\ exitStatus.code = 124

\* spawnAgent returns after its timer fired
ReturnAfterTimeoutStep == sup.pc = "exitwait" /\ sup'.pc = "idle"

\* a step taken between the timer firing and the return of spawnAgent
AfterExpiryStep == sup.pc = "exitwait" /\ sup'.pc = "exitwait"

\* s is an initial part of t
IsPrefix(s, t) == Len(s) <= Len(t) /\ SubSeq(t, 1, Len(s)) = s

(***************************************************************************)
(* C12: on timeout the captured output is not discarded.  When the timer   *)
(* fires, output and events are kept as they are; from then until the      *)
(* return they only grow at the end (chunks and lines read while the exit  *)
(* code is awaited); and the result returned is flagged timed out and      *)
(* holds the output and the events collected.  So the result's output      *)
(* begins with every stdout chunk read before the timer fired, in arrival  *)
(* order, and its events begin with every event decoded before then.       *)
(***************************************************************************)
C12_TimeoutKeepsOutput ==
    [][ /\ (sup.pc = "draining" /\ sup'.pc = "exitwait")
            => sup'.output = sup.output /\ sup'.events = sup.events
        /\ AfterExpiryStep
            => IsPrefix(sup.output, sup'.output) /\ IsPrefix(sup.events, sup'.events)
        /\ ReturnAfterTimeoutStep
            => /\ frames'[Top].result.timedOut
               /\ frames'[Top].result.output = sup.output
               /\ frames'[Top].result.events = sup.events ]_vars

\* a timed-out call has returned output and an event
C12_Witness ==
    /\ Top >= 1
    /\ frames[Top].pc = "interpreting"
    /\ frames[Top].result.timedOut
    /\ frames[Top].result.output /= <<>>
    /\ frames[Top].result.events /= <<>>

\* C12 as stated: the output of a timed-out result is exactly the chunks
\* read before the timer fired, nothing being added to it afterwards
C12_ExactlyChunksBeforeExpiry ==
    [][ AfterExpiryStep => sup'.output = sup.output ]_vars

\* the path of the task file of a configuration
TasksPath(config) == JSString(OrElse(config.tasksFile, Str("TASKS.md")))

\* the output holds a well-formed delimited block with non-empty content
HasBlock(output) ==
    /\ output /= <<>>
    /\ IndexOf(output, beginDelimiter) > 0
    /\ IndexOf(output, endDelimiter) > IndexOf(output, beginDelimiter)
    /\ HasTasksContent(extractTasksContent(output))

\* the text is what a block holds between its delimiters, trimmed
IsTrimmedInner(text, output) ==
    /\ text = extractTasksContent(output)
    /\ ~Includes(text, beginDelimiter)
    /\ ~Includes(text, endDelimiter)
    /\ ~IsBlank(text[1])
    /\ ~IsBlank(text[Len(text)])
    /\ \A i \in 1..Len(Flat(text)) : \E j \in 1..Len(Flat(output)) :
           /\ Flat(output)[j].w = Flat(text)[i].w
           /\ j > IndexOf(output, beginDelimiter)
           /\ j < IndexOf(output, endDelimiter)

C20_PlanBlockAlwaysSaved ==
    [][ /\ (/\ ~exitStatus.exited /\ exitStatus'.exited /\ exitStatus'.error = ""
            /\ toLowerCase(frames[1].role) = "plan"
            /\ frames[1].result.present
            /\ ~frames[1].result.timedOut
            /\ HasBlock(frames[1].result.output))
           => IsTrimmedInner(files'[TasksPath(frames[1].config)], frames[1].result.output)
        /\ (/\ PopStep
            /\ frames[Top].role = "plan"
            /\ frames[Top].result.present
            /\ HasBlock(frames[Top].result.output))
           => IsTrimmedInner(files'[TasksPath(frames[Top - 1].config)],
                             frames[Top].result.output) ]_vars

\* the events of an error stream decoded in one piece, line by line
UnsplitEvents(bytes) == EventsOf(SplitLines(DecodeChunk(bytes)))

(***************************************************************************)
(* C15: however the error stream is cut into read chunks, when the reader  *)
(* has finished the events of the result are the valid events of the lines *)
(* of the whole stream, in order.                                          *)
(***************************************************************************)
C15_ChunkingPreservesEvents ==
    errPipe.done => errPipe.events = UnsplitEvents(errPipe.written)

\* a text with the object around it, as a line may carry it
PaddedTexts(obj) ==
    {TextInput(stringify(obj)), TextInput(<<" ">> \o stringify(obj) \o <<LineFeed>>)}

\* inputs that are not events: not a string, blank, not JSON, JSON that is
\* not an object, an object without a type or without an agent member
NotEventInputs ==
    NonStringInputs \cup BlankInputs \cup UnparseableInputs \cup NonObjectInputs
    \cup UNION {PaddedTexts(obj) : obj \in {o \in DecoderObjects :
                    ~HasKey(o, <<"type">>) \/ ~HasKey(o, <<"agent">>)}}

(***************************************************************************)
(* C16: parseEventStream returns null for an input that is not a string,   *)
(* is blank, is not JSON, is JSON but no object, or is an object without   *)
(* type or without agent; and the reader never takes such a line for an    *)
(* event: every event it holds has a type and an agent, and it holds no    *)
(* more events than lines were written.                                    *)
(***************************************************************************)
C16_NotAnEventIsNull ==
    /\ (errPipe.call.made /\ errPipe.call.input \in NotEventInputs)
          => errPipe.call.returned = NoEvent
    /\ \A i \in 1..Len(errPipe.events) :
          /\ HasKey(errPipe.events[i], <<"type">>)
          /\ HasKey(errPipe.events[i], <<"agent">>)
    /\ Len(errPipe.events) <= errPipe.writes
    /\ (errPipe.done /\ errPipe.writes = 1 /\ errPipe.written = <<"Warning", LineFeed>>)
          => errPipe.events = <<>>

\* the reader has finished a stream that held one line, which is not JSON:
\* parseEventStream was called with it and the result holds no event
C16_Witness ==
    /\ errPipe.done
    /\ errPipe.written = <<"Warning", LineFeed>>
    /\ errPipe.events = <<>>
    /\ errPipe.call.made
    /\ errPipe.call.input = TextInput(<<"Warning">>)
    /\ errPipe.call.returned = NoEvent

(***************************************************************************)
(* C17: for a line that parses to one JSON object in which a type member   *)
(* and an agent member are present, whatever their values,                 *)
(* parseEventStream returns that object with every member, in the order of *)
(* the line.                                                               *)
(***************************************************************************)
C17_ObjectWithTypeAndAgentIsEvent ==
    \A obj \in DecoderObjects :
        (/\ errPipe.call.made
         /\ errPipe.call.input \in PaddedTexts(obj)
         /\ HasKey(obj, <<"type">>)
         /\ HasKey(obj, <<"agent">>))
        => errPipe.call.returned = [event |-> TRUE, obj |-> obj]

\* the members of an object that have a value
RECURSIVE Defined(_)
Defined(obj) ==
    IF obj = <<>> THEN <<>>
    ELSE (IF Head(obj).v = JUndefined THEN <<>> ELSE <<Head(obj)>>) \o Defined(Tail(obj))

(***************************************************************************)
(* C18: round trip.  The line emitEvent(type, agent, data) writes decodes  *)
(* to an object equal to {type, agent, ...data}; and a line that decodes   *)
(* to an event decodes to the same event after it is serialized again.     *)
(***************************************************************************)
C18_RoundTrip ==
    /\ errPipe.emitted.made
          => LET decoded == parseEventStream(TextInput(errPipe.emitted.line))
                 event == Spread(<<Member(<<"type">>, errPipe.emitted.type),
                                   Member(<<"agent">>, errPipe.emitted.agent)>>,
                                 errPipe.emitted.data)
             IN /\ decoded.event
                /\ SameObject(decoded.obj, Defined(event))
    /\ (errPipe.call.made /\ errPipe.call.returned.event)
          => parseEventStream(TextInput(stringify(errPipe.call.returned.obj)))
               = errPipe.call.returned

\* spawnAgent returns its result to the frame on top
ReturnStep == sup.pc /= "idle" /\ sup'.pc = "idle"

\* exactly the file at path is replaced, by content
Replaced(path, content) ==
    /\ path \in DOMAIN files
    /\ files' = [files EXCEPT ![path] = content]

(***************************************************************************)
(* C21: the engine writes the task file only as a whole-file replacement   *)
(* by the block extracted from the output of a plan-role invocation: a     *)
(* step that changes a file is either a plan frame interpreting its own    *)
(* result or a plan sub-frame returning to its manager, the file it        *)
(* changes is the task file of that frame (of the manager), and the new    *)
(* content is exactly the trimmed block of that output.  The output a      *)
(* frame interprets is what the process spawned for the frame's role       *)
(* wrote.  A frame of another role interpreting its own output, and an     *)
(* output without a block, leave every file as it is.                      *)
(***************************************************************************)
C21_OnlyPlanBlockReplacesTaskFile ==
    [][ /\ files' /= files
           => \/ /\ InterpretStep
                 /\ toLowerCase(frames[Top].role) = "plan"
                 /\ HasBlock(frames[Top].result.output)
                 /\ Replaced(TasksPath(frames[Top].config),
                             extractTasksContent(frames[Top].result.output))
              \/ /\ PopStep
                 /\ frames[Top].role = "plan"
                 /\ toLowerCase(frames[Top - 1].role) = "manage"
                 /\ HasBlock(frames[Top].result.output)
                 /\ Replaced(TasksPath(frames[Top - 1].config),
                             extractTasksContent(frames[Top].result.output))
        /\ ReturnStep
           => /\ proc.role = toLowerCase(frames[Top].role)
              /\ frames'[Top].result.output = sup.output
        /\ (InterpretStep /\ toLowerCase(frames[Top].role) /= "plan")
           => files' = files
        /\ (InterpretStep /\ ~HasBlock(frames[Top].result.output))
           => files' = files
        /\ (PopStep /\ ~HasBlock(frames[Top].result.output))
           => files' = files ]_vars

\* a manager is about to run again after a plan sub-agent, the task file
\* holding the block in place of what it held
C21_Witness ==
    /\ Top = 1
    /\ toLowerCase(frames[1].role) = "manage"
    /\ frames[1].pc = "invoking"
    /\ frames[1].iteration = 2
    /\ frames[1].config.continuationPrompt /= <<>>
    /\ frames[1].config.continuationPrompt[4] = <<"Agent:", "plan">>
    /\ files["TASKS.md"] = << <<"- [ ] A">> >>

\* the run ends with an error
ErrorStep == ~exitStatus.exited /\ exitStatus'.exited /\ exitStatus'.error /= ""

(***************************************************************************)
(* C22: when the agent executable cannot be started, spawnAgent throws     *)
(* 'Claude CLI not found' and returns no result.  A frame that is about to *)
(* invoke its agent either spawns the process, ends with the               *)
(* iteration-limit result, or the run ends with an error: no other result  *)
(* comes out of it.  The launch error, at whatever depth it is thrown,     *)
(* removes every frame, spawns no process, writes no file and ends the run *)
(* with exit code 1; it is distinct from the invalid-role error; and once  *)
(* the run has ended nothing is spawned or written any more.               *)
(***************************************************************************)
C22_LaunchFailureEndsRun ==
    [][ /\ (Top >= 1 /\ frames[Top].pc = "invoking" /\ frames' /= frames)
           => \/ /\ SpawnStep
                 /\ frames' = SetTop([frames[Top] EXCEPT !.pc = "awaiting",
                                                         !.spawns = @ + 1])
              \/ frames' = SetTop([frames[Top] EXCEPT !.pc = "terminal",
                                                      !.result = CeilingResult])
              \/ ErrorStep
        /\ (ErrorStep /\ exitStatus'.error = "Claude CLI not found")
           => /\ RoleIsValid(frames[Top].role)
              /\ frames[Top].pc = "invoking"
              /\ frames' = <<>>
              /\ exitStatus'.code = 1
              /\ files' = files
              /\ proc' = proc /\ sup' = sup /\ sup.pc = "idle"
        /\ (ErrorStep /\ ~RoleIsValid(frames[Top].role))
           => exitStatus'.error /= "Claude CLI not found"
        /\ exitStatus.exited
           => /\ frames' = frames /\ files' = files
              /\ proc' = proc /\ sup' = sup /\ exitStatus' = exitStatus ]_vars

\* the run has ended with the launch error after an earlier plan agent's
\* block was saved: the failed launch was not the first of the run
C22_Witness ==
    /\ exitStatus.exited
    /\ exitStatus.error = "Claude CLI not found"
    /\ exitStatus.code = 1
    /\ frames = <<>>
    /\ ~proc.alive
    /\ sup.pc = "idle"
    /\ files["TASKS.md"] = << <<"- [ ] A">> >>

\* the prompt holds a block with the contents of the task file
HasTasksBlock(prompt) ==
    \/ Includes(prompt, "TASK_FILE_NAME=")
    \/ Includes(prompt, "--- CURRENT CONTENTS OF")
    \/ Includes(prompt, "--- END CURRENT CONTENTS ---")

(***************************************************************************)
(* C23: a task file that is missing when the prompt is built does not      *)
(* abort the invocation: the process is spawned all the same, and the      *)
(* prompt written to it holds no task-contents block: it is the role's     *)
(* template followed by the continuation text, if any.  No run ends with   *)
(* an error other than an invalid role or a failed launch.                 *)
(***************************************************************************)
C23_MissingTaskFileIsEmpty ==
    [][ /\ (SpawnStep /\ files[TasksPath(frames[Top].config)] = NullText)
           => /\ proc'.alive
              /\ ~HasTasksBlock(proc'.stdin)
              /\ Len(proc'.stdin) = Len(RoleTemplate(toLowerCase(frames[Top].role)))
                                    + Len(frames[Top].config.continuationPrompt)
              /\ LastLines(proc'.stdin, Len(frames[Top].config.continuationPrompt))
                    = frames[Top].config.continuationPrompt
        /\ ErrorStep => exitStatus'.error \in {"Invalid role", "Claude CLI not found"} ]_vars

\* an agent runs on a prompt without task block, the task file being
\* missing
C23_Witness ==
    /\ Top >= 1
    /\ frames[Top].pc = "awaiting"
    /\ proc.alive
    /\ files[TasksPath(frames[Top].config)] = NullText
    /\ ~HasTasksBlock(proc.stdin)
    /\ proc.stdin /= <<>>

(***************************************************************************)
(* C24: within a frame the invocations carry the iteration numbers 1, 2,   *)
(* 3, ...: the k-th process of a frame is spawned at iteration k, after    *)
(* the check against the limit, and the iteration number of a frame only   *)
(* ever grows by one.  A sub-frame starts at iteration 1 with no process   *)
(* spawned, whatever the iteration of its parent.  So a frame whose limit  *)
(* is a number has spawned no more processes than that number.             *)
(***************************************************************************)
C24_IterationsCountInvocations ==
    [][ /\ \A i \in 1..Len(frames) :
              /\ frames[i].iteration >= 1
              /\ frames[i].spawns <= frames[i].iteration
              /\ ~IsNaN(frames[i].config.maxIterations)
                 => frames[i].spawns <= ToNumber(frames[i].config.maxIterations)
        /\ SpawnStep
           => /\ ~GreaterThan(frames[Top].iteration, frames[Top].config.maxIterations)
              /\ frames[Top].spawns = frames[Top].iteration - 1
              /\ frames'[Top].spawns = frames[Top].iteration
              /\ frames'[Top].iteration = frames[Top].iteration
              /\ proc'.stdin = FullPrompt(frames[Top].role,
                                          AgentConfig(frames[Top].config,
                                                      frames[Top].iteration),
                                          files)
        /\ PushStep
           => /\ frames'[Top + 1].iteration = 1
              /\ frames'[Top + 1].spawns = 0
              /\ frames'[Top].iteration = frames[Top].iteration
        /\ \A i \in 1..Len(frames) :
              i <= Len(frames')
              => /\ frames'[i].iteration \in {frames[i].iteration, frames[i].iteration + 1}
                 /\ frames'[i].config.maxIterations = frames[i].config.maxIterations
                 /\ frames'[i].iteration = frames[i].iteration + 1
                    => (PopStep /\ i = Top - 1 /\ frames'[i].spawns = frames[i].spawns)
      ]_vars

\* a sub-frame runs its first process at iteration 1 while its manager is
\* at iteration 2, having spawned as many processes as its limit allows
C24_Witness ==
    /\ Top = 2
    /\ frames[1].iteration = 2
    /\ frames[1].spawns = 2
    /\ frames[1].config.maxIterations = Num(2)
    /\ frames[2].iteration = 1
    /\ frames[2].spawns = 1
    /\ frames[2].pc = "awaiting"
    /\ proc.alive

(***************************************************************************)
(* C25: a result is not changed after spawnAgent has returned it: as long  *)
(* as a frame holds the result, its exit code, output, timeout flag and    *)
(* event list stay what they were at the return; in particular the reader  *)
(* of a call that timed out adds no event to it.                           *)
(***************************************************************************)
C25_ResultNeverMutated ==
    [][ \A i \in 1..Len(frames) :
            (/\ frames[i].result.present
             /\ i <= Len(frames')
             /\ frames'[i].result.present)
            => /\ frames'[i].result.events = frames[i].result.events
               /\ frames'[i].result.output = frames[i].result.output
               /\ frames'[i].result.exitCode = frames[i].result.exitCode
               /\ frames'[i].result.timedOut = frames[i].result.timedOut ]_vars

(***************************************************************************)
(* C26: the process of a sub-frame gets a fresh context: its prompt is the *)
(* role's template and the contents of the task file, and holds no         *)
(* continuation block, nor anything else that reports the result of an     *)
(* earlier sub-agent.                                                      *)
(***************************************************************************)
C26_SubAgentPromptIsFresh ==
    (Top >= 2 /\ proc.alive)
    => /\ ~Includes(proc.stdin, "--- SUB-AGENT RESULT ---")
       /\ ~Includes(proc.stdin, "Exit Code:")
       /\ ~Includes(proc.stdin, "The sub-agent has finished. What is the next step?")

\* the command line gives a project description with -p or --prompt
HasPromptFlag(argv) ==
    \E i \in 1..(Len(argv) - 1) : argv[i] \in {"-p", "--prompt"}

\* the description that follows the flag
PromptFlagText(argv) ==
    argv[(CHOOSE i \in 1..(Len(argv) - 1) : argv[i] \in {"-p", "--prompt"}) + 1]

(***************************************************************************)
(* C27: started for the manage role with -p <text> or --prompt <text>, the *)
(* program asks no question and runs with <text>, unchanged, as the        *)
(* project description; the user is asked only for the manage role and     *)
(* only when no such flag is given.                                        *)
(***************************************************************************)
C27_PromptFlagSkipsQuestion ==
    /\ startup.asked
       => (startup.role = "manage" /\ ~HasPromptFlag(startup.argv))
    /\ (startup.pc = "running" /\ startup.role = "manage" /\ HasPromptFlag(startup.argv))
       => startup.initialPrompt = <<PromptFlagText(startup.argv)>>

\* the role is, letter case aside, one of the four role names
IsRoleName(role) == toLowerCase(role) \in {"manage", "plan", "code", "document"}

(***************************************************************************)
(* C28: spawnAgent called with a role that is not, letter case aside, one  *)
(* of manage, plan, code, document fails with an error and spawns no       *)
(* process; called with a role name in any letter case it does not fail    *)
(* for the role, and the prompt of the process it spawns is built from the *)
(* template of the lower-case name, as for the lower-case name itself.     *)
(* (spawnAgent is called by a frame that is within its iteration limit.)   *)
(***************************************************************************)
C28_RoleValidatedBeforeSpawn ==
    [][ /\ (/\ Top >= 1 /\ frames[Top].pc = "invoking" /\ frames' /= frames
            /\ ~GreaterThan(frames[Top].iteration, frames[Top].config.maxIterations)
            /\ ~IsRoleName(frames[Top].role))
           => /\ ErrorStep
              /\ exitStatus'.error = "Invalid role"
              /\ proc' = proc /\ sup' = sup /\ sup.pc = "idle" /\ ~proc.alive
        /\ (ErrorStep /\ exitStatus'.error = "Invalid role")
           => ~IsRoleName(frames[Top].role)
        /\ SpawnStep
           => /\ IsRoleName(frames[Top].role)
              /\ proc'.role = toLowerCase(frames[Top].role)
              /\ proc'.stdin[1] = RoleTemplate(toLowerCase(frames[Top].role))[1]
              /\ proc'.stdin = FullPrompt(toLowerCase(frames[Top].role),
                                          AgentConfig(frames[Top].config,
                                                      frames[Top].iteration),
                                          files) ]_vars

\* the run has ended with the invalid-role error, no process having been
\* spawned
C28_Witness ==
    /\ exitStatus.exited
    /\ exitStatus.error = "Invalid role"
    /\ exitStatus.code = 1
    /\ sup.pc = "idle"
    /\ ~proc.alive
    /\ orphans = 0

\* ---------------------------------------------------------------------
\* The configuration loading system.  A configuration is a function from
\* the names of the settings it defines to their values.

DEFAULT_CONFIG ==
    [model |-> Str("claude-sonnet-4-5"), maxIterations |-> Num(10),
     tasksFile |-> Str("TASKS.md"), configFile |-> Str(".rtfrc.json"),
     claudeCommand |-> Str("claude"), skipPermissions |-> Bool(FALSE)]

\* parseInt(string, 10): the number the leading digits denote, NaN without them
parseInt(string) ==
    CASE string \in DOMAIN DecimalOf -> Num(DecimalOf[string])
      [] string = "3rd" -> Num(3)
      [] OTHER -> [t |-> "number", n |-> 0, s |-> "NaN"]

\* loadEnvConfig(): env is process.env, a function from the names of the
\* variables that are set to their values
loadEnvConfig(env) ==
    LET set(name) == name \in DOMAIN env /\ env[name] /= ""
        defined ==
            {k \in {"model", "maxIterations", "tasksFile", "configFile",
                    "claudeCommand", "skipPermissions"} :
                CASE k = "model" -> set("RTF_MODEL")
                  [] k = "maxIterations" ->
                       set("RTF_MAX_ITERATIONS")
                       /\ parseInt(env["RTF_MAX_ITERATIONS"]).s /= "NaN"
                  [] k = "tasksFile" -> set("RTF_TASKS_FILE")
                  [] k = "configFile" -> set("RTF_CONFIG_FILE")
                  [] k = "claudeCommand" -> set("RTF_CLAUDE_COMMAND")
                  [] OTHER -> set("RTF_SKIP_PERMISSIONS")}
    IN [k \in defined |->
            CASE k = "model" -> Str(env["RTF_MODEL"])
              [] k = "maxIterations" -> parseInt(env["RTF_MAX_ITERATIONS"])
              [] k = "tasksFile" -> Str(env["RTF_TASKS_FILE"])
              [] k = "configFile" -> Str(env["RTF_CONFIG_FILE"])
              [] k = "claudeCommand" -> Str(env["RTF_CLAUDE_COMMAND"])
              [] OTHER -> Bool(toLowerCase(env["RTF_SKIP_PERMISSIONS"])
                                 \in {"true", "1", "yes"})]

\* cliArgsToConfig(cliArgs)
cliArgsToConfig(cliArgs) ==
    LET given(member) == member \in DOMAIN cliArgs
                         /\ cliArgs[member].t \notin {"undefined", "null"}
        defined ==
            {k \in {"model", "maxIterations", "tasksFile", "configFile", "role",
                    "skipPermissions"} :
                CASE k = "model" -> given("model")
                  [] k = "maxIterations" ->
                       given("maxIterations")
                       /\ parseInt(JSString(cliArgs.maxIterations)).s /= "NaN"
                  [] k = "tasksFile" -> given("tasks")
                  [] k = "configFile" -> given("config")
                  [] k = "role" -> given("role")
                  [] OTHER -> given("skipPermissions")}
    IN [k \in defined |->
            CASE k = "model" -> cliArgs.model
              [] k = "maxIterations" -> parseInt(JSString(cliArgs.maxIterations))
              [] k = "tasksFile" -> cliArgs.tasks
              [] k = "configFile" -> cliArgs.config
              [] k = "role" -> cliArgs.role
              [] OTHER -> cliArgs.skipPermissions]

\* variant: the environment is merged last, over the command line
loadConfigEnvLast(cliArgs, env, configFiles) ==
    LET envConfig == loadEnvConfig(env)
        cliConfig == cliArgsToConfig(cliArgs)
        fileConfig == IF ".rtfrc.json" \in DOMAIN configFiles
                      THEN configFiles[".rtfrc.json"] ELSE [k \in {} |-> Undef]
    IN envConfig @@ cliConfig @@ fileConfig @@ DEFAULT_CONFIG

\* loadConfig(cliArgs): configFiles holds the parsed content of the
\* configuration files that exist
loadConfig(cliArgs, env, configFiles) ==
    LET envConfig == loadEnvConfig(env)
        cliConfig == cliArgsToConfig(cliArgs)
        member(config, k) == IF k \in DOMAIN config THEN config[k] ELSE Undef
        configFilePath ==
            JSString(OrElse(member(cliConfig, "configFile"),
                            OrElse(member(envConfig, "configFile"),
                                   DEFAULT_CONFIG.configFile)))
        fileConfig == IF configFilePath \in DOMAIN configFiles
                      THEN configFiles[configFilePath] ELSE [k \in {} |-> Undef]
    IN cliConfig @@ envConfig @@ fileConfig @@ DEFAULT_CONFIG

\* ---------------------------------------------------------------------
\* buildPrompt called on its own, on arguments drawn from small sets.

BuildInit ==
    /\ frames = <<>>
    /\ proc = NoProcess
    /\ sup = SupIdle
    /\ orphans = 0
    /\ files = [f \in {"TASKS.md", "ALT.md"} |-> NullText]
    /\ exitStatus = NotExited
    /\ errPipe = IdlePipe
    /\ startup = NoStartup
    \* task-file names: a plain one, and names in which a dollar sign stands;
    \* ceilings: numbers from the command line, a string from a directive;
    \* task-file contents: none, and one open task;
    \* continuation texts: none, and one left by an earlier iteration
    /\ \/ \E role \in VALID_ROLES,
          name \in {"TASKS.md", "my$$tasks.md", "$&.md", "$MAX_ITERATIONS.md"},
          limit \in {Num(2), Num(10), Str("3")},
          iteration \in 1..MaxIter,
          content \in {<<>>, << <<"- [ ] write the parser">> >>},
          continuation \in {<<>>, << <<"## Previous Agent Result">> >>} :
            built = BuildCall(RoleTemplate(role), content,
                              [TopConfig("manage", 1, Undef) EXCEPT
                                  !.tasksFile = Str(name), !.maxIterations = limit,
                                  !.currentIteration = Num(iteration),
                                  !.continuationPrompt = continuation])
       \* or loadConfig is called: the command line, the environment and the
       \* configuration file in the working directory are drawn
       \/ \E model \in {<<>>, <<"--model", "opus">>},
             limit \in {<<>>, <<"--max-iterations", "3">>, <<"--max-iterations", "abc">>,
                        <<"--max-iter", "3rd">>},
             tasks \in {<<>>, <<"--tasks", "ALT.md">>},
             path \in {<<>>, <<"--config", "my.json">>},
             envModel \in {"", "haiku"},
             envLimit \in {"", "2", "many"},
             envTasks \in {"", "ENV.md"},
             envPath \in {"", "env.json"},
             rc \in {[k \in {} |-> Undef],
                     [model |-> Str("sonnet"), maxIterations |-> Num(1),
                      claudeCommand |-> Str("claude-beta")]} :
            built = [pc |-> "load",
                     cliArgs |-> parseArgs(model \o limit \o tasks \o path),
                     env |-> [v \in {"RTF_MODEL", "RTF_MAX_ITERATIONS", "RTF_TASKS_FILE",
                                     "RTF_CONFIG_FILE"} |->
                                 CASE v = "RTF_MODEL" -> envModel
                                   [] v = "RTF_MAX_ITERATIONS" -> envLimit
                                   [] v = "RTF_TASKS_FILE" -> envTasks
                                   [] OTHER -> envPath],
                     configFiles |->
                         [f \in {".rtfrc.json", "my.json", "env.json"} |->
                             CASE f = ".rtfrc.json" -> rc
                               [] f = "my.json" -> [tasksFile |-> Str("MY.md"),
                                                    maxIterations |-> Num(2)]
                               [] OTHER -> [model |-> Str("env-file-model")]],
                     config |-> <<>>]
       \* or extractTasksContent is called: with something that is not a
       \* string, with the empty string, with text that lacks a delimiter or
       \* has them in the wrong order or more than once, and with blocks
       \* that are empty, blank at the ends or several lines long
       \/ \E response \in
              {[type |-> t, text |-> <<>>] : t \in {"null", "undefined", "number", "object"}}
              \cup
              {[type |-> "string", text |-> text] : text \in
                  { <<>>,
                    << <<"Just some text without delimiters">> >>,
                    << <<beginDelimiter>>, <<"Some content">> >>,
                    << <<"Some content">>, <<endDelimiter>> >>,
                    << <<endDelimiter>>, <<"Content">>, <<beginDelimiter>> >>,
                    << <<endDelimiter, beginDelimiter, "- [ ] A", endDelimiter>> >>,
                    << <<beginDelimiter>>, <<endDelimiter>> >>,
                    << <<beginDelimiter, "- [ ] A", beginDelimiter, "- [ ] B",
                         endDelimiter>> >>,
                    << <<"Plan:", beginDelimiter, "- [ ] A", endDelimiter, "- [ ] B",
                         endDelimiter, "done">> >>,
                    << <<"Some analysis here...">>, <<beginDelimiter>>, <<>>,
                       <<"# Tasks">>, <<"- [ ] A">>, <<>>, <<endDelimiter>>,
                       <<"Some text after">> >> }} :
            built = [pc |-> "extract", response |-> response, content |-> <<>>]

\* const fullPrompt = buildPrompt(rolePrompt, tasksContent, config)
BuildPromptCall ==
    /\ built.pc = "call"
    /\ built' = [built EXCEPT
                    !.pc = "returned",
                    !.prompt = buildPrompt(built.rolePrompt, built.tasksContent, built.config)]
    /\ UNCHANGED <<frames, proc, sup, orphans, files, exitStatus, errPipe, startup>>

\* const config = await loadConfig(cliArgs)
LoadConfigCall ==
    /\ built.pc = "load"
    /\ built' = [built EXCEPT
                    !.pc = "loaded",
                    !.config = loadConfig(built.cliArgs, built.env, built.configFiles)]
    /\ UNCHANGED <<frames, proc, sup, orphans, files, exitStatus, errPipe, startup>>

\* const content = extractTasksContent(response): what is not a string is
\* turned away by the typeof test, a string by the tests that follow
ExtractCall ==
    /\ built.pc = "extract"
    /\ built' = [built EXCEPT
                    !.pc = "extracted",
                    !.content = IF built.response.type /= "string" THEN NullText
                                ELSE extractTasksContent(built.response.text)]
    /\ UNCHANGED <<frames, proc, sup, orphans, files, exitStatus, errPipe, startup>>

BuildNext ==
    \/ BuildPromptCall
    \/ LoadConfigCall
    \/ ExtractCall

BuildSpec == BuildInit /\ [][BuildNext]_vars

\* the line with each placeholder replaced by the text itself, in one pass
RECURSIVE SubstitutedLine(_, _, _, _)
SubstitutedLine(line, name, limit, iteration) ==
    IF line = <<>> THEN <<>>
    ELSE (CASE Head(line) = "$TASKS_FILE" -> Pieces(name)
            [] Head(line) = "$MAX_ITERATIONS" -> Pieces(limit)
            [] Head(line) = "$CURRENT_ITERATION" -> Pieces(iteration)
            [] OTHER -> <<Head(line)>>)
         \o SubstitutedLine(Tail(line), name, limit, iteration)

Substituted(template, config) ==
    [ln \in 1..Len(template) |->
        SubstitutedLine(template[ln], JSString(config.tasksFile),
                        JSString(config.maxIterations), JSString(config.currentIteration))]

\* C29: with empty task-file content and no continuation text, the built
\* prompt is the template with every $TASKS_FILE, $MAX_ITERATIONS and
\* $CURRENT_ITERATION replaced by the configured task-file name, the
\* configured ceiling and the current iteration number, and nothing else
\* changed.
C29_OnlyPlaceholdersReplaced ==
    (/\ built.pc = "returned"
     /\ built.tasksContent = <<>>
     /\ built.config.continuationPrompt = <<>>)
    => built.prompt = Substituted(built.rolePrompt, built.config)

\* C30: every run ends after finitely many invocations whatever the agent
\* processes write, directives that target the manage role included: the
\* depth of the recursion and the number of processes are bounded by the
\* iteration ceilings.  A call of runAgentWithOrchestration therefore never
\* makes, on the output of its process, the recursive call with the very
\* role, configuration and iteration it was itself made with: a process
\* that writes the same output again would repeat that call without end.
C30_RecursionBoundedByCeilings ==
    (/\ Running
     /\ frames[Top].pc = "interpreting"
     /\ Interpretation(frames[Top].role, frames[Top].result.output) = "invoke")
    => SubFrame(frames[Top].config, parseInvokeDirective(frames[Top].result.output))
         /= Frame(frames[Top].role, frames[Top].config, frames[Top].iteration)

\* C31: the merged configuration takes each setting from the highest-priority
\* source that defines it, command line over environment over configuration
\* file over built-in defaults, and a maximum-iteration value of the command
\* line or the environment that does not parse as an integer is passed over
\* for the next source.
C31_HighestPrioritySourceWins ==
    built.pc = "loaded" =>
        LET cli == built.cliArgs
            env == built.env
            path == IF cli.config /= Null THEN cli.config.s
                    ELSE IF env["RTF_CONFIG_FILE"] /= "" THEN env["RTF_CONFIG_FILE"]
                    ELSE ".rtfrc.json"
            file == built.configFiles[path]
            fromFile(k) == IF k \in DOMAIN file THEN file[k] ELSE DEFAULT_CONFIG[k]
            parses(string) == parseInt(string).s /= "NaN"
        IN /\ built.config["model"] =
                IF cli.model /= Null THEN cli.model
                ELSE IF env["RTF_MODEL"] /= "" THEN Str(env["RTF_MODEL"])
                ELSE fromFile("model")
           /\ built.config["maxIterations"] =
                IF cli.maxIterations /= Null /\ parses(cli.maxIterations.s)
                THEN parseInt(cli.maxIterations.s)
                ELSE IF env["RTF_MAX_ITERATIONS"] /= "" /\ parses(env["RTF_MAX_ITERATIONS"])
                THEN parseInt(env["RTF_MAX_ITERATIONS"])
                ELSE fromFile("maxIterations")
           /\ built.config["tasksFile"] =
                IF cli.tasks /= Null THEN cli.tasks
                ELSE IF env["RTF_TASKS_FILE"] /= "" THEN Str(env["RTF_TASKS_FILE"])
                ELSE fromFile("tasksFile")
           /\ built.config["claudeCommand"] = fromFile("claudeCommand")
           /\ built.config["configFile"] = Str(path)

\* the command line gives a ceiling that does not parse, the environment one
\* that does and the configuration file another: the environment's is taken
C31_Witness ==
    /\ built.pc = "loaded"
    /\ built.cliArgs.maxIterations = Str("abc")
    /\ built.cliArgs.model = Str("opus")
    /\ built.env["RTF_MAX_ITERATIONS"] = "2"
    /\ built.env["RTF_MODEL"] = "haiku"
    /\ "maxIterations" \in DOMAIN built.configFiles[".rtfrc.json"]
    /\ built.cliArgs.config = Null /\ built.env["RTF_CONFIG_FILE"] = ""
    /\ built.config["maxIterations"] = Num(2)
    /\ built.config["model"] = Str("opus")
    /\ built.config["claudeCommand"] = Str("claude-beta")

\* ---------------------------------------------------------------------
\* A manager invocation whose process writes one of the outputs below: the
\* run is followed from the moment spawnAgent has started the process.
DirectiveInit ==
    \E timeout \in {Undef, Num(50)},
       out \in { \* two directive lines
                 << Invoke("plan", <<"--max-iterations", "1", "--model", "first">>),
                    Invoke("code", <<"--max-iterations", "1", "--model", "second">>) >>,
                 \* the max-iteration marker and a directive
                 << <<"REACHED MAX ITERATIONS">>,
                    Invoke("plan", <<"--max-iterations", "1", "--model", "third">>) >>,
                 \* a completion marker and the max-iteration marker
                 << <<"REACHED MAX ITERATIONS">>, <<"**AGENT COMPLETE**">> >>,
                 \* the role name directly followed by markdown punctuation
                 << <<"**INVOKE**:", "ralph-thinks-first", "--role", "plan**">> >>,
                 << <<"**INVOKE**:", "ralph-thinks-first", "--role", "code.",
                      "--max-iterations", "1">> >>,
                 \* text after the directive on its line, and on the next line
                 << Invoke("code", <<"--max-iterations", "1", "to", "begin">>),
                    <<"Then", "--tasks", "ALT.md", "is", "updated">> >>,
                 << Invoke("plan", <<>>),
                    <<"A", "run", "with", "--max-iterations", "1", "is", "enough">> >> } :
        LET config == TopConfig("manage", 1, timeout)
        IN /\ frames = << [Frame("manage", config, 1) EXCEPT
                              !.pc = "awaiting", !.spawns = 1] >>
           /\ files = [f \in {"TASKS.md", "ALT.md"} |-> NullText]
           /\ proc = NewProcess("manage", AgentConfig(config, 1), files, out)
           /\ sup = [pc |-> "draining", output |-> <<>>, events |-> <<>>,
                     timedOut |-> FALSE, timer |-> TimerArmed(config)]
           /\ orphans = 0
           /\ exitStatus = NotExited
           /\ errPipe = IdlePipe
           /\ startup = NoStartup
           /\ built = NothingBuilt

DirectiveSpec == DirectiveInit /\ [][Next]_vars

(***************************************************************************)
(* The engine at the points where a task block is saved: a plan process,   *)
(* started by main or by a manager's directive, is about to write a block  *)
(* that is empty, blank or filled, to a task file that holds tasks or does *)
(* not exist, at a path that can or cannot be written ("RO.md").  A run    *)
(* started with a role the engine does not know is the third start.        *)
(***************************************************************************)
SaveInit ==
    \E timeout \in {Undef, Num(50)},
       limit \in 1..MaxIter,
       path \in {"TASKS.md", "RO.md"},
       old \in {NullText, OldTasks},
       start \in {"plan", "manage", "bogus"},
       out \in { << <<beginDelimiter, endDelimiter>>, <<"**AGENT COMPLETE**">> >>,
                 << <<"Plan:", beginDelimiter>>, <<>>, <<endDelimiter>> >>,
                 OutTasksBlock, OutTasksBlockOnly } :
        LET config == [TopConfig(start, limit, timeout) EXCEPT !.tasksFile = Str(path)]
            sub == SubFrame(config, parseInvokeDirective(OutInvokePlan))
            running == IF start = "plan" THEN Frame("plan", config, 1) ELSE sub
        IN /\ files = [f \in {"TASKS.md", "ALT.md"} |->
                          IF f = "TASKS.md" THEN old ELSE NullText]
           /\ IF start = "bogus"
              THEN /\ frames = << Frame(start, config, 1) >>
                   /\ proc = NoProcess
                   /\ sup = SupIdle
              ELSE /\ frames =
                        (IF start = "manage"
                         THEN << [Frame("manage", config, 1) EXCEPT
                                     !.pc = "recursing", !.spawns = 1] >>
                         ELSE <<>>)
                        \o << [running EXCEPT !.pc = "awaiting", !.spawns = 1] >>
                   /\ proc = NewProcess("plan", AgentConfig(running.config, 1), files, out)
                   /\ sup = [pc |-> "draining", output |-> <<>>, events |-> <<>>,
                             timedOut |-> FALSE, timer |-> TimerArmed(running.config)]
           /\ orphans = 0
           /\ exitStatus = NotExited
           /\ errPipe = IdlePipe
           /\ startup = NoStartup
           /\ built = NothingBuilt

SaveSpec == SaveInit /\ [][Next]_vars

\* the lines of the output on which a directive stands
DirectiveLines(output) ==
    {ln \in 1..Len(output) :
        \E p \in 1..Len(output[ln]) :
            /\ p + 3 <= Len(output[ln])
            /\ SubSeq(output[ln], p, p + 2) = <<"**INVOKE**:", "ralph-thinks-first", "--role">>}

\* the directive line that comes first in the text, without its first three words
FirstDirectiveLine(output) ==
    LET ln == CHOOSE l \in DirectiveLines(output) : \A k \in DirectiveLines(output) : l <= k
    IN SubSeq(output[ln], 4, Len(output[ln]))

\* C32: per manager invocation at most one sub-frame is started: when the
\* output holds several directive lines, the one sub-frame is that of the
\* first line in the text, and when it has returned the manager goes on to
\* its own next invocation without starting a sub-frame for another line.
C32_OnlyFirstDirectiveActedUpon ==
    [][/\ (/\ InterpretStep
           /\ Cardinality(DirectiveLines(frames[Top].result.output)) > 1
           /\ Len(frames') /= Len(frames))
          => LET line == FirstDirectiveLine(frames[Top].result.output)
             IN /\ Len(frames') = Len(frames) + 1
                /\ frames'[Top].pc = "recursing"
                /\ frames'[Top + 1].role = toLowerCase(line[1])
                /\ frames'[Top + 1].config.model = Str(line[5])
                /\ frames'[Top + 1].pc = "invoking"
       /\ (PopStep /\ frames[Top - 1].pc = "recursing")
          => /\ frames'[Top - 1].pc = "invoking"
             /\ frames'[Top - 1].iteration = frames[Top - 1].iteration + 1
             /\ frames'[Top - 1].spawns = frames[Top - 1].spawns]_vars

\* the sub-frame of the first of two directive lines is running its process,
\* with the model that line names
C32_Witness ==
    /\ Top = 2
    /\ frames[1].pc = "recursing"
    /\ frames[2].role = "plan"
    /\ frames[2].config.model = Str("first")
    /\ frames[2].spawns = 1
    /\ proc.role = "plan"

\* C33: a manager output with the max-iteration marker and a directive line
\* but no completion marker ends the frame flagged iteration-exhausted and
\* starts no sub-frame; an output with a completion marker and the
\* max-iteration marker ends the frame as completed, without the flag.
C33_ExhaustionBeatsDirective ==
    [][/\ (/\ InterpretStep
           /\ IsManager(frames[Top].role)
           /\ hasMaxIterationsSignal(frames[Top].result.output)
           /\ DirectiveLines(frames[Top].result.output) /= {}
           /\ ~hasCompletionSignal(frames[Top].result.output))
          => /\ Len(frames') = Len(frames)
             /\ frames'[Top].pc = "terminal"
             /\ frames'[Top].result.reachedMaxIterations
             /\ frames'[Top].spawns = frames[Top].spawns
             /\ proc' = proc /\ sup' = sup
       /\ (/\ InterpretStep
           /\ hasMaxIterationsSignal(frames[Top].result.output)
           /\ hasCompletionSignal(frames[Top].result.output))
          => /\ Len(frames') = Len(frames)
             /\ frames'[Top].pc = "terminal"
             /\ ~frames'[Top].result.reachedMaxIterations
             /\ frames'[Top].result = frames[Top].result]_vars

\* the manager's frame has ended flagged on an output that also held a directive
C33_Witness ==
    /\ Top = 1
    /\ frames[1].pc = "terminal"
    /\ frames[1].result.reachedMaxIterations
    /\ hasMaxIterationsSignal(frames[1].result.output)
    /\ DirectiveLines(frames[1].result.output) /= {}
    /\ frames[1].spawns = 1

\* the role name a word stands for once trailing markdown punctuation is taken off
StripPunctuation(word) ==
    CASE word = "plan**" -> "plan"
      [] word = "code." -> "code"
      [] OTHER -> word

\* C34: the sub-frame a directive starts has the role the directive names,
\* markdown punctuation after the name taken off, and the arguments that
\* stand on the directive's own line: text on the following lines is never
\* taken as arguments.
C34_DirectiveEndsWithItsLine ==
    [][(/\ InterpretStep
        /\ DirectiveLines(frames[Top].result.output) /= {}
        /\ Len(frames') = Len(frames) + 1)
       => LET line == FirstDirectiveLine(frames[Top].result.output)
              subRole == StripPunctuation(toLowerCase(line[1]))
          IN /\ subRole \in VALID_ROLES
             /\ frames'[Top + 1] =
                    Frame(subRole,
                          SubConfig(frames[Top].config, parseArgs(SplitArgs(Tail(line))),
                                    subRole),
                          1)]_vars

\* proc.kill() is called in this step
KillStep == ~proc.killed /\ proc'.killed

\* C35: the process is killed if and only if the timer expires before
\* stdout end, stderr end and process exit have all occurred; the timeout
\* flag is set if and only if the process was killed; kill is issued at most
\* once, only on the process of the invocation, and never after the
\* invocation completed normally.
C35_KilledOnlyBeforeAllEnded ==
    [][/\ KillStep => /\ sup.pc = "draining" /\ sup.timer
                      /\ (proc.outOpen \/ proc.errOpen \/ proc.alive)
       /\ (sup'.timedOut /\ ~sup.timedOut) <=> KillStep
       /\ ReturnStep => frames'[Top].result.timedOut = proc.killed]_vars

\* C35 (amended): the process is killed if and only if the timer fires while
\* spawnAgent still waits for the two readers and the exit, which it may do
\* after the streams have ended and the process has exited; timedOut is set
\* in the same step and in no other, the result is flagged if and only if
\* the process was killed, the timer fires at most once in an invocation and
\* not at all once the wait has ended.
C35_KilledOnlyWhileWaiting ==
    [][/\ KillStep => /\ sup.pc = "draining" /\ sup.timer
                      /\ ~sup'.timer
                      /\ proc' = [proc EXCEPT !.killed = TRUE]
       /\ (sup'.timedOut /\ ~sup.timedOut) <=> KillStep
       /\ (sup.pc /= "idle" /\ sup.pc /= "draining") => ~sup.timer /\ proc.killed
       /\ sup.pc = "idle" => ~proc.killed /\ ~sup.timer
       /\ ReturnStep => /\ frames'[Top].result.timedOut = proc.killed
                        /\ (sup.pc = "draining" => ~proc.killed)]_vars

\* the timer has fired after the process had exited with code 0 and both
\* streams had ended: the call has returned flagged, with the whole output
C35_Witness ==
    /\ Running
    /\ frames[Top].pc = "interpreting"
    /\ frames[Top].result.timedOut
    /\ frames[Top].result.exitCode = 0
    /\ frames[Top].result.output = OutComplete
    /\ frames[Top].result.unreadErr = <<>>
    /\ orphans = 0

\* C36: at the end of the error stream the line left without a line feed
\* goes through the decoder once: if it is an event, it is the last element
\* of the event list, and a blank leftover adds nothing.
C36_LeftoverLineDecodedOnce ==
    [][(~errPipe.done /\ errPipe'.done)
       => LET decoded == parseEventStream(TextInput(errPipe.buffer))
          IN /\ (TrimChars(errPipe.buffer) /= <<>> /\ decoded.event)
                => /\ errPipe'.events = Append(errPipe.events, decoded.obj)
                   /\ errPipe'.call.returned = decoded
             /\ ~(TrimChars(errPipe.buffer) /= <<>> /\ decoded.event)
                => errPipe'.events = errPipe.events
             /\ TrimChars(errPipe.buffer) = <<>> => errPipe'.call = errPipe.call]_vars

\* the stream ended on an event line without a line feed, after a line with
\* one: the list ends with that event
C36_Witness ==
    /\ errPipe.done
    /\ errPipe.writes = 2
    /\ errPipe.written[Len(errPipe.written)] /= LineFeed
    /\ Len(errPipe.events) = 2
    /\ errPipe.events[2] = errPipe.call.returned.obj
    /\ errPipe.call.returned.event
    /\ TrimChars(errPipe.buffer) /= <<>>

\* the result a frame holds carries the marks of one invocation of the
\* frame's own role: what a single process wrote, and nothing else
OfOneOwnInvocation(f) ==
    \/ f.result = CeilingResult
    \/ /\ ~f.result.reachedMaxIterations \/ hasMaxIterationsSignal(f.result.output)
       /\ \E out \in Outputs : IsPrefix(f.result.output, out)
       /\ Len(f.result.events) <= 1
       /\ \A k \in 1..Len(f.result.events) :
              f.result.events[k] = StatusLine(toLowerCase(f.role), "running")

\* C37: the result a frame returns is the result of its last own step: it
\* is set by the return of the frame's own call of spawnAgent or by the
\* iteration limit, a frame that returns holds one, a frame about to invoke
\* again holds none, and nothing of a sub-frame or of an earlier invocation
\* is in it.
C37_ResultIsOfLastOwnStep ==
    /\ [](\A i \in 1..Len(frames) :
              /\ frames[i].result.present => OfOneOwnInvocation(frames[i])
              /\ frames[i].pc = "terminal" => frames[i].result.present
              /\ frames[i].pc \in {"invoking", "awaiting", "recursing"}
                 => frames[i].result = NoResult)
    /\ [][\A i \in 1..Len(frames') :
              frames'[i].result.present
              => IF i <= Len(frames) /\ frames[i].result.present
                 THEN /\ frames'[i].result.output = frames[i].result.output
                      /\ frames'[i].result.exitCode = frames[i].result.exitCode
                      /\ frames'[i].result.timedOut = frames[i].result.timedOut
                      /\ \/ frames'[i].result.events = frames[i].result.events
                         \/ /\ frames[i].result.unreadErr /= <<>>
                            /\ frames'[i].result.events =
                                   Append(frames[i].result.events,
                                          Head(frames[i].result.unreadErr))
                 ELSE /\ i = Top /\ Len(frames') = Top
                      /\ \/ frames'[i].result = CeilingResult
                         \/ /\ frames[i].pc = "awaiting"
                            /\ frames'[i].result.output = sup.output
                            /\ frames'[i].result.events = sup.events
                            /\ frames'[i].result.timedOut = sup.timedOut
                            /\ frames'[i].result.exitCode \in {proc.code, -1}]_vars

\* a manager has returned the result of its second invocation, made after a
\* sub-frame ran: the result holds the one event of that invocation
C37_Witness ==
    /\ exitStatus.exited
    /\ Len(frames) = 1
    /\ frames[1].role = "manage"
    /\ frames[1].pc = "terminal"
    /\ frames[1].iteration = 2
    /\ frames[1].spawns = 2
    /\ frames[1].result.output = OutComplete
    /\ frames[1].result.events = <<StatusLine("manage", "running")>>
    /\ frames[1].result.exitCode = 0

\* the path of the task file cannot be written
WriteFails(config) == TasksPath(config) \notin DOMAIN files

\* the delimiters are there, in order, with nothing but blanks between them
HasEmptyBlock(output) ==
    /\ IndexOf(output, beginDelimiter) > 0
    /\ IndexOf(output, endDelimiter) > IndexOf(output, beginDelimiter)
    /\ extractTasksContent(output) = <<>>

\* C38: a plan output whose block is empty or blank leaves the task file
\* as it was, no task file is ever made empty, and a write to the task file
\* that fails changes nothing but the messages: the frame goes on to return
\* its result, or the manager to its next iteration, as after a write that
\* succeeded.
C38_EmptyBlockAndFailedWriteAreHarmless ==
    /\ [](\A f \in DOMAIN files : files[f] /= <<>>)
    /\ [][/\ (InterpretStep /\ toLowerCase(frames[Top].role) = "plan")
             => /\ HasEmptyBlock(frames[Top].result.output) => files' = files
                /\ WriteFails(frames[Top].config)
                   => /\ files' = files
                      /\ exitStatus' = exitStatus
                      /\ Len(frames') = Top
                      /\ frames'[Top].pc = "terminal"
                      /\ frames'[Top].result.output = frames[Top].result.output
                      /\ frames'[Top].result.exitCode = frames[Top].result.exitCode
          /\ (PopStep /\ frames[Top].role = "plan")
             => /\ HasEmptyBlock(frames[Top].result.output) => files' = files
                /\ WriteFails(frames[Top - 1].config)
                   => /\ files' = files
                      /\ exitStatus' = exitStatus
                      /\ frames'[Top - 1].pc = "invoking"
                      /\ frames'[Top - 1].iteration = frames[Top - 1].iteration + 1]_vars

\* a plan frame has returned after a block with nothing in it, and the task
\* file still holds the tasks it held
C38_Witness ==
    /\ Len(frames) = 1
    /\ frames[1].role = "plan"
    /\ frames[1].pc = "terminal"
    /\ HasEmptyBlock(frames[1].result.output)
    /\ hasCompletionSignal(frames[1].result.output)
    /\ files["TASKS.md"] = OldTasks
    /\ ~exitStatus.exited

\* the words of a text, line after line
WordsOf(text) ==
    LET W == Flat(text)
    IN SelectSeq([i \in 1..Len(W) |-> W[i].w], LAMBDA w : w /= "")

\* the words of a text from position from to position to of its flat form
WordsBetween(text, from, to) ==
    LET W == Flat(text)
    IN SelectSeq([i \in 1..Len(W) |-> IF i >= from /\ i <= to THEN W[i].w ELSE ""],
                 LAMBDA w : w /= "")

\* C39: extractTasksContent returns what stands between the first begin
\* delimiter and the first end delimiter, without the blank lines at its
\* ends, and null when its argument is not a string or is the empty string,
\* when a delimiter is missing and when the first end delimiter does not
\* come after the first begin delimiter.
C39_ExtractsBetweenFirstDelimiters ==
    built.pc = "extracted" =>
        LET text == built.response.text
            W == Flat(text)
            first(token) == {i \in 1..Len(W) : /\ W[i].w = token
                                               /\ \A j \in 1..(i - 1) : W[j].w /= token}
            ordered == {<<b, e>> \in first(beginDelimiter) \X first(endDelimiter) : b < e}
        IN IF built.response.type /= "string" \/ text = <<>> \/ ordered = {}
           THEN built.content = NullText
           ELSE /\ built.content /= NullText
                /\ \A be \in ordered :
                       WordsOf(built.content) = WordsBetween(text, be[1] + 1, be[2] - 1)
                /\ built.content /= <<>>
                   => /\ ~IsBlank(built.content[1])
                      /\ ~IsBlank(built.content[Len(built.content)])

\* the text held lines before and after the delimiters and blank lines
\* around a block of two lines: the two lines were returned
C39_Witness ==
    /\ built.pc = "extracted"
    /\ built.response.type = "string"
    /\ IndexOf(built.response.text, beginDelimiter) = 2
    /\ built.content = << <<"# Tasks">>, <<"- [ ] A">> >>

\* C40: the prompt written to a manager's or a planner's process holds the
\* project description of the frame's configuration, when there is one, and
\* in no prompt is the placeholder $INITIAL_PROMPT left standing.
C40_PromptCarriesDescription ==
    (proc.alive /\ Top >= 1 /\ frames[Top].pc = "awaiting")
    => /\ \A ln \in 1..Len(proc.stdin) : \A k \in 1..Len(proc.stdin[ln]) :
              proc.stdin[ln][k] /= "$INITIAL_PROMPT"
       /\ (proc.role \in {"manage", "plan"} /\ frames[Top].config.initialPrompt /= <<>>)
          => \E ln \in 1..Len(proc.stdin) :
                 proc.stdin[ln] = frames[Top].config.initialPrompt

====
